---------------------------- MODULE Spec2Model ----------------------------
(***************************************************************************)
(* AMasterRoom: grid shaping, footprint placement/reservation, forced      *)
(* placements and procedural floor fill of a dungeon room                  *)
(* (Source/GHClaudeDungeonGen/Private/Rooms/MasterRoom.cpp).               *)
(*                                                                         *)
(* The source holds two revisions of the generator: the map revision       *)
(* (TMap RuntimeGrid, GenerateFloor) and the array revision (TArray Grid,  *)
(* GenerateFloorTiles).  The variable revision says which one is built.    *)
(*                                                                         *)
(* RuntimeGrid is a TMap<FIntPoint, FGridCell>: a function from the        *)
(* coordinates present to cell records, together with the iteration order  *)
(* of the map (insertion order, GridOrder).  Soft object references are    *)
(* modelled by what LoadSynchronous returns: an asset, or "None".          *)
(***************************************************************************)
EXTENDS Integers, Sequences, FiniteSets, TLC

(***************************************************************************)
(* Bounds of the model                                                     *)
(***************************************************************************)
\* seeds offered to RegenerateRoom and produced by FMath::Rand(): 0..MaxSeed
MaxSeed == 2
\* direct calls of the protected placement API between two generations
MaxCalls == 1
\* coordinates offered to direct placement calls: -1..MaxCoord
MaxCoord == 2

\* modulus of the modelled FRandomStream state
RandMod == 8

\* SELECTION_WEIGHT_SCALE: SelectionWeight is 0-100
SELECTION_WEIGHT_SCALE == 100

\* the revisions of AMasterRoom in the source
Revisions == {"map", "array"}

Seeds == 0..MaxSeed

(***************************************************************************)
(* Types/GridTypes.h, Types/RoomShapeTypes.h                               *)
(***************************************************************************)
ECellState == {"Unoccupied", "Occupied", "Reserved", "Excluded"}

ERoomShape == {"Rectangle", "LShape", "TShape", "UShape", "Custom"}

\* FGridCell::FGridCell(): the default-constructed cell
FGridCell ==
  [GridCoordinates |-> <<0, 0>>, CellState |-> "Unoccupied",
   bHasNorthWall |-> FALSE, bHasEastWall |-> FALSE,
   bHasSouthWall |-> FALSE, bHasWestWall |-> FALSE,
   bHasNorthDoorway |-> FALSE, bHasEastDoorway |-> FALSE,
   bHasSouthDoorway |-> FALSE, bHasWestDoorway |-> FALSE,
   OccupyingActor |-> "None"]

\* FMeshPlacementData: Mesh is the mesh LoadSynchronous yields, or "None"
FMeshPlacementData(mesh, cx, cy, w) ==
  [Mesh |-> mesh, CellsX |-> cx, CellsY |-> cy, SelectionWeight |-> w,
   bAllowRotation |-> TRUE]

\* FRoomShapeDefinition
FRoomShapeDefinition(type, w, h, layout, lw, lh) ==
  [ShapeType |-> type, RectWidth |-> w, RectHeight |-> h,
   CustomCellLayout |-> layout, CustomLayoutWidth |-> lw,
   CustomLayoutHeight |-> lh]

Max(a, b) == IF a >= b THEN a ELSE b

(***************************************************************************)
(* Footprints and the grid                                                 *)
(***************************************************************************)
\* the rectangle [x, x+cx) x [y, y+cy) scanned by the footprint loops
Footprint(BottomLeftCell, cx, cy) ==
  {<<BottomLeftCell[1] + X, BottomLeftCell[2] + Y>> :
      X \in 0..(cx - 1), Y \in 0..(cy - 1)}

\* AMasterRoom::IsValidGridPosition
IsValidGridPosition(grid, GridCoord) == GridCoord \in DOMAIN grid

\* a rows-by-columns block of cells in the order the nested loops add them
\* (Y outer, X inner)
RECURSIVE BlockOrder(_, _, _, _, _, _)
BlockOrder(x0, x1, y0, y1, X, Y) ==
  IF Y >= y1 \/ x0 >= x1 THEN <<>>
  ELSE IF X >= x1 THEN BlockOrder(x0, x1, y0, y1, x0, Y + 1)
  ELSE <<<<X, Y>>>> \o BlockOrder(x0, x1, y0, y1, X + 1, Y)

\* variant: the X loop runs to x1 inclusive
Block_InclusiveX(x0, x1, y0, y1) == BlockOrder(x0, x1 + 1, y0, y1, x0, y0)

Block(x0, x1, y0, y1) == BlockOrder(x0, x1, y0, y1, x0, y0)

SeqToSet(s) == {s[i] : i \in 1..Len(s)}

\* keys of a TMap after a sequence of Add calls: a key added twice keeps its
\* first slot
RECURSIVE DedupKeys(_)
DedupKeys(s) ==
  IF s = <<>> THEN <<>>
  ELSE LET front == DedupKeys(SubSeq(s, 1, Len(s) - 1))
           last == s[Len(s)]
       IN IF last \in SeqToSet(front) THEN front ELSE Append(front, last)

(***************************************************************************)
(* AMasterRoom::InitializeGrid(const FRoomShapeDefinition&)                *)
(***************************************************************************)
\* variant: the layout array is read column by column (Index = X * Height + Y)
CustomCells_ColumnMajor(Shape) ==
  LET all == Block(0, Shape.CustomLayoutWidth, 0, Shape.CustomLayoutHeight)
      Index(c) == c[1] * Shape.CustomLayoutHeight + c[2]
  IN SelectSeq(all, LAMBDA c : Shape.CustomCellLayout[Index(c) + 1] = 1)

\* coordinates of a Custom layout whose array entry is 1, in loop order
CustomCells(Shape) ==
  LET all == Block(0, Shape.CustomLayoutWidth, 0, Shape.CustomLayoutHeight)
      Index(c) == c[2] * Shape.CustomLayoutWidth + c[1]
  IN SelectSeq(all, LAMBDA c : Shape.CustomCellLayout[Index(c) + 1] = 1)

\* the sequence of RuntimeGrid.Add calls InitializeGrid makes for a shape
ShapeAdds(ShapeDefinition) ==
  LET W == ShapeDefinition.RectWidth
      H == ShapeDefinition.RectHeight
  IN CASE ShapeDefinition.ShapeType = "Rectangle" -> Block(0, W, 0, H)
       [] ShapeDefinition.ShapeType = "Custom" ->
            IF Len(ShapeDefinition.CustomCellLayout)
                 = ShapeDefinition.CustomLayoutWidth
                     * ShapeDefinition.CustomLayoutHeight
            THEN CustomCells(ShapeDefinition)
            ELSE <<>>
       [] ShapeDefinition.ShapeType = "LShape" ->
            LET ExtensionWidth == Max(1, W \div 2)
                ExtensionHeight == Max(1, H \div 2)
            IN Block(0, W, 0, H)
                 \o Block(W, W + ExtensionWidth, 0, ExtensionHeight)
       [] ShapeDefinition.ShapeType = "TShape" ->
            LET ExtensionWidth == Max(1, W \div 3)
                ExtensionHeight == Max(1, H \div 3)
                ExtensionStartX == (W - ExtensionWidth) \div 2
            IN Block(0, W, 0, H)
                 \o Block(ExtensionStartX, ExtensionStartX + ExtensionWidth,
                          H, H + ExtensionHeight)
       [] ShapeDefinition.ShapeType = "UShape" ->
            LET ExtensionWidth == W \div 3
            IN Block(0, W, 0, H \div 3)
                 \o Block(0, ExtensionWidth, H \div 3, H)
                 \o Block(W - ExtensionWidth, W, H \div 3, H)
       [] OTHER -> Block(0, W, 0, H)

\* variant: the grid is created with its cells already Occupied
NewCell_Occupied(GridCoord) ==
  [FGridCell EXCEPT !.GridCoordinates = GridCoord, !.CellState = "Occupied"]

\* the cell InitializeGrid stores under GridCoord
NewCell(GridCoord) ==
  [FGridCell EXCEPT !.GridCoordinates = GridCoord,
                    !.CellState = "Unoccupied"]

\* iteration order of RuntimeGrid after InitializeGrid
InitializeGridOrder(ShapeDefinition) == DedupKeys(ShapeAdds(ShapeDefinition))

\* contents of RuntimeGrid after InitializeGrid
InitializeGrid(ShapeDefinition) ==
  [c \in SeqToSet(ShapeAdds(ShapeDefinition)) |-> NewCell(c)]

\* RuntimeGrid.Empty()
EmptyGrid == [c \in {} |-> FGridCell]

(***************************************************************************)
(* Footprint placement and reservation                                     *)
(***************************************************************************)
\* the marking loops: every footprint cell found in the grid gets the state
MarkCells(grid, cells, state) ==
  [c \in DOMAIN grid |->
     IF c \in cells THEN [grid[c] EXCEPT !.CellState = state] ELSE grid[c]]

\* AMasterRoom::TryPlaceMultiCellMesh: the footprint check (first half)
FootprintFits(grid, BottomLeftCell, PlacementData) ==
  /\ IsValidGridPosition(grid, BottomLeftCell)
  /\ \A CheckCoord \in Footprint(BottomLeftCell, PlacementData.CellsX,
                                 PlacementData.CellsY) :
        /\ IsValidGridPosition(grid, CheckCoord)
        /\ grid[CheckCoord].CellState = "Unoccupied"

\* variant: the check loops run one column too far (X <= CellsX)
TryPlaceMultiCellMeshRet_ExtraColumn(grid, BottomLeftCell, PlacementData) ==
  /\ IsValidGridPosition(grid, BottomLeftCell)
  /\ \A CheckCoord \in Footprint(BottomLeftCell, PlacementData.CellsX + 1,
                                 PlacementData.CellsY) :
        /\ IsValidGridPosition(grid, CheckCoord)
        /\ grid[CheckCoord].CellState = "Unoccupied"
  /\ PlacementData.Mesh # "None"

\* AMasterRoom::TryPlaceMultiCellMesh: the value returned
TryPlaceMultiCellMeshRet(grid, BottomLeftCell, PlacementData) ==
  /\ FootprintFits(grid, BottomLeftCell, PlacementData)
  /\ PlacementData.Mesh # "None"

\* variant: cells are marked while they are checked, so a footprint that
\* fails on a later cell has already occupied the earlier ones
TryPlaceMultiCellMeshGrid_MarkWhileChecking(grid, BottomLeftCell, PlacementData) ==
  [c \in DOMAIN grid |->
     IF /\ c \in Footprint(BottomLeftCell, PlacementData.CellsX,
                           PlacementData.CellsY)
        /\ grid[c].CellState = "Unoccupied"
        /\ PlacementData.Mesh # "None"
     THEN [grid[c] EXCEPT !.CellState = "Occupied", !.OccupyingActor = "this"]
     ELSE grid[c]]

\* AMasterRoom::TryPlaceMultiCellMesh: the grid it leaves
TryPlaceMultiCellMeshGrid(grid, BottomLeftCell, PlacementData) ==
  IF TryPlaceMultiCellMeshRet(grid, BottomLeftCell, PlacementData)
  THEN [c \in DOMAIN grid |->
          IF c \in Footprint(BottomLeftCell, PlacementData.CellsX,
                             PlacementData.CellsY)
          THEN [grid[c] EXCEPT !.CellState = "Occupied",
                               !.OccupyingActor = "this"]
          ELSE grid[c]]
  ELSE grid

\* a UStaticMeshComponent attached to a container
Component(Cell, PlacementData, Direction) ==
  [BottomLeftCell |-> Cell, PlacementData |-> PlacementData,
   Direction |-> Direction, Rotation |-> 0]

\* a UStaticMeshComponent rotated by Rotation quarter turns
RotatedComponent(Cell, PlacementData, Rotation) ==
  [BottomLeftCell |-> Cell, PlacementData |-> PlacementData,
   Direction |-> "None", Rotation |-> Rotation]

\* AMasterRoom::TryPlaceMultiCellMesh: the components attached to the container
TryPlaceMultiCellMeshSpawn(grid, BottomLeftCell, PlacementData, container) ==
  IF TryPlaceMultiCellMeshRet(grid, BottomLeftCell, PlacementData)
  THEN container \cup {Component(BottomLeftCell, PlacementData, "None")}
  ELSE container

\* variant: the reservation tests that the cells exist, not that they are free
ReserveCellsForFootprintRet_ValidOnly(grid, BottomLeftCell, FootprintX, FootprintY) ==
  \A CellCoord \in Footprint(BottomLeftCell, FootprintX, FootprintY) :
     IsValidGridPosition(grid, CellCoord)

\* AMasterRoom::ReserveCellsForFootprint: the value returned
ReserveCellsForFootprintRet(grid, BottomLeftCell, FootprintX, FootprintY) ==
  \A CellCoord \in Footprint(BottomLeftCell, FootprintX, FootprintY) :
     /\ IsValidGridPosition(grid, CellCoord)
     /\ grid[CellCoord].CellState = "Unoccupied"

\* variant: the reservation marks the cells Occupied
ReserveCellsForFootprintGrid_Occupied(grid, BottomLeftCell, FootprintX, FootprintY) ==
  IF ReserveCellsForFootprintRet(grid, BottomLeftCell, FootprintX, FootprintY)
  THEN MarkCells(grid, Footprint(BottomLeftCell, FootprintX, FootprintY),
                 "Occupied")
  ELSE grid

\* AMasterRoom::ReserveCellsForFootprint: the grid it leaves
ReserveCellsForFootprintGrid(grid, BottomLeftCell, FootprintX, FootprintY) ==
  IF ReserveCellsForFootprintRet(grid, BottomLeftCell, FootprintX, FootprintY)
  THEN MarkCells(grid, Footprint(BottomLeftCell, FootprintX, FootprintY),
                 "Reserved")
  ELSE grid

\* variant: only the anchor cell of the footprint is tested
CheckFootprintOverlap_AnchorOnly(grid, BottomLeftCell, FootprintX, FootprintY) ==
  \/ ~IsValidGridPosition(grid, BottomLeftCell)
  \/ grid[BottomLeftCell].CellState # "Unoccupied"

\* AMasterRoom::CheckFootprintOverlap
CheckFootprintOverlap(grid, BottomLeftCell, FootprintX, FootprintY) ==
  \E CellCoord \in Footprint(BottomLeftCell, FootprintX, FootprintY) :
     \/ ~IsValidGridPosition(grid, CellCoord)
     \/ grid[CellCoord].CellState # "Unoccupied"

(***************************************************************************)
(* FRandomStream: a seeded deterministic generator.  The state is advanced *)
(* by a linear congruence before every draw; a draw is the fraction        *)
(* state / RandMod scaled to the requested range.                          *)
(***************************************************************************)
\* variant: the stream is initialised with zero whatever the seed
RandomStreamInitialize_Zero(InSeed) == 0

\* FRandomStream::Initialize
RandomStreamInitialize(InSeed) == InSeed % RandMod

\* the state after one draw
MutateSeed(stream) == (stream * 5 + 3) % RandMod

\* FRandomStream::RandRange(Min, Max), drawn from the mutated state
RandRange(stream, lo, hi) ==
  lo + ((MutateSeed(stream) * (hi - lo + 1)) \div RandMod)

(***************************************************************************)
(* Input data: tiles, shapes, RoomData assets, forced-placement maps       *)
(***************************************************************************)
SM_FloorA == FMeshPlacementData("SM_FloorA", 1, 1, 1)
SM_FloorB == FMeshPlacementData("SM_FloorB", 1, 1, 2)
SM_FloorZero == FMeshPlacementData("SM_FloorZero", 1, 1, 0)
SM_Floor2x1 == FMeshPlacementData("SM_Floor2x1", 2, 1, 50)
SM_Floor1x2 == FMeshPlacementData("SM_Floor1x2", 1, 2, 1)
SM_Floor2x2 == FMeshPlacementData("SM_Floor2x2", 2, 2, 100)
SM_Missing2x1 == FMeshPlacementData("None", 2, 1, 1)
SM_Wall ==
  [FMeshPlacementData("SM_Wall", 1, 1, 1) EXCEPT !.bAllowRotation = FALSE]
SM_Ceiling == FMeshPlacementData("SM_Ceiling", 1, 1, 1)
SM_Ceiling2x1 == FMeshPlacementData("SM_Ceiling2x1", 2, 1, 1)

Rect(w, h) == FRoomShapeDefinition("Rectangle", w, h, <<>>, 5, 5)
LShape(w, h) == FRoomShapeDefinition("LShape", w, h, <<>>, 5, 5)
TShape(w, h) == FRoomShapeDefinition("TShape", w, h, <<>>, 5, 5)
UShape(w, h) == FRoomShapeDefinition("UShape", w, h, <<>>, 5, 5)
Custom(layout, lw, lh) == FRoomShapeDefinition("Custom", 5, 5, layout, lw, lh)

\* FRoomShapeDefinition::FRoomShapeDefinition()
DefaultShape == Rect(5, 5)

\* a soft reference to a data asset: IsValid is whether it resolves
NoData == [IsValid |-> FALSE, Tiles |-> <<>>]
Data(tiles) == [IsValid |-> TRUE, Tiles |-> tiles]

\* TSoftObjectPtr<URoomData> with the asset it resolves to
URoomData(isNull, loads, shapes, floor, wall, ceiling) ==
  [IsNull |-> isNull, Loads |-> loads, AllowedShapes |-> shapes,
   FloorData |-> floor, WallData |-> wall, CeilingData |-> ceiling]

NullRoomData == URoomData(TRUE, FALSE, <<>>, NoData, NoData, NoData)
MissingRoomData == URoomData(FALSE, FALSE, <<>>, NoData, NoData, NoData)

DA_Hall ==
  URoomData(FALSE, TRUE, <<Rect(3, 2), LShape(2, 2)>>,
            Data(<<SM_FloorA, SM_Floor2x1, SM_Floor2x2>>),
            Data(<<SM_Wall>>), Data(<<SM_Ceiling, SM_Ceiling2x1>>))
DA_Cell ==
  URoomData(FALSE, TRUE, <<Rect(2, 2), Custom(<<1, 1, 0, 1>>, 2, 2)>>,
            Data(<<SM_FloorZero, SM_FloorA, SM_FloorB>>),
            Data(<<SM_Wall>>), NoData)
DA_NoShapes ==
  URoomData(FALSE, TRUE, <<>>,
            Data(<<SM_Missing2x1, SM_FloorA, SM_Floor1x2>>),
            NoData, Data(<<SM_Ceiling>>))
DA_Bare ==
  URoomData(FALSE, TRUE, <<Rect(3, 1)>>, NoData, Data(<<SM_Wall>>), NoData)

\* (bUseShapeOverride, ShapeOverride) as set in the editor
NoOverride == <<FALSE, DefaultShape>>
Override(shape) == <<TRUE, shape>>

\* a TMap<FIntPoint, FMeshPlacementData> in iteration order
Entry(x, y, tile) == [Key |-> <<x, y>>, Value |-> tile]

\* (ForcedFloorPlacements, ForcedWallPlacements, ForcedCeilingPlacements)
NoForced == <<<<>>, <<>>, <<>>>>
ForcedOverlap ==
  <<<<Entry(0, 0, SM_Floor2x1)>>, <<Entry(1, 0, SM_Wall)>>, <<>>>>
ForcedChain ==
  <<<<Entry(1, 0, SM_Floor2x2), Entry(0, 1, SM_Floor2x1)>>, <<>>,
    <<Entry(0, 0, SM_Ceiling)>>>>
ForcedOutside ==
  <<<<Entry(3, 3, SM_FloorA)>>, <<Entry(0, 0, SM_Wall)>>,
    <<Entry(-1, 0, SM_Ceiling2x1), Entry(0, 0, SM_Ceiling)>>>>

\* the rooms set up in the editor: (RoomData, shape override, forced maps)
Scenarios ==
  { <<NullRoomData, NoOverride, NoForced>>,
    <<MissingRoomData, NoOverride, ForcedOverlap>>,
    <<DA_Hall, NoOverride, NoForced>>,
    <<DA_Hall, NoOverride, ForcedOverlap>>,
    <<DA_Hall, NoOverride, ForcedChain>>,
    <<DA_Hall, NoOverride, ForcedOutside>>,
    <<DA_Hall, Override(UShape(3, 3)), ForcedChain>>,
    <<DA_Cell, NoOverride, NoForced>>,
    <<DA_Cell, NoOverride, ForcedOverlap>>,
    <<DA_Cell, Override(TShape(2, 1)), NoForced>>,
    <<DA_Cell, Override(TShape(2, 1)), ForcedOutside>>,
    <<DA_Cell, Override(Custom(<<1, 1, 1>>, 2, 2)), ForcedOverlap>>,
    <<DA_NoShapes, NoOverride, NoForced>>,
    <<DA_NoShapes, Override(TShape(2, 1)), ForcedOverlap>>,
    <<DA_NoShapes, Override(UShape(3, 3)), NoForced>>,
    <<DA_NoShapes, Override(Rect(2, 2)), ForcedChain>>,
    <<DA_Bare, NoOverride, NoForced>>,
    <<DA_Bare, NoOverride, ForcedOverlap>>,
    <<DA_Bare, NoOverride, ForcedOutside>>,
    <<DA_Bare, Override(Custom(<<1, 0, 1, 1>>, 2, 2)), ForcedOutside>> }

\* tiles offered to direct calls of the protected placement API
CallTiles == {SM_FloorA, SM_Floor2x1, SM_Missing2x1}

\* coordinates offered to direct calls of the protected placement API
CallCoords == (-1..MaxCoord) \X (-1..MaxCoord)

(***************************************************************************)
(* State                                                                   *)
(***************************************************************************)
VARIABLES
  \* the revision of AMasterRoom that is built
  revision,
  \* designer-set properties of the actor
  RoomData, ShapeOverride, bUseShapeOverride,
  ForcedFloorPlacements, ForcedWallPlacements, ForcedCeilingPlacements,
  GenerationSeed, bUseRandomSeed,
  \* runtime state of the actor
  bIsGenerated, RuntimeGrid, GridOrder, RandomStream, DoorwaySnapPoints,
  FloorContainer, WallContainer, DoorContainer, CeilingContainer,
  \* position inside GenerateRoom and its locals
  pc, idx, SelectedShape, bAllPlacementsSucceeded, SortedTiles,
  \* history: what the run in progress (or the last run) did
  calls, nCalls, streamSeed, forcedAccepted, forcedRejected,
  multiVisit, singleVisit, phasesRun, lastRun, runMemo,
  \* history: how the last call of GenerateRoom or CleanupRoom/ClearRoom ended
  lastCall

config == <<revision, RoomData, ShapeOverride, bUseShapeOverride, ForcedFloorPlacements,
            ForcedWallPlacements, ForcedCeilingPlacements>>
seeding == <<GenerationSeed, bUseRandomSeed>>
containers == <<FloorContainer, WallContainer, DoorContainer,
                CeilingContainer>>
locals == <<idx, SelectedShape, bAllPlacementsSucceeded, SortedTiles>>
forcedLog == <<forcedAccepted, forcedRejected>>
floorLog == <<multiVisit, singleVisit>>
runLog == <<lastRun, runMemo, lastCall>>

vars == <<config, seeding, bIsGenerated, RuntimeGrid, GridOrder, RandomStream,
          DoorwaySnapPoints, containers, pc, locals, calls, nCalls,
          streamSeed, forcedLog, floorLog, phasesRun, runLog>>

NoSnapPoints == [North |-> <<>>, East |-> <<>>, South |-> <<>>, West |-> <<>>]

\* AMasterRoom::AMasterRoom() followed by the properties set in the editor
Init ==
  /\ revision \in Revisions
  /\ \E s \in Scenarios :
        /\ RoomData = s[1]
        /\ bUseShapeOverride = s[2][1]
        /\ ShapeOverride = s[2][2]
        /\ ForcedFloorPlacements = s[3][1]
        /\ ForcedWallPlacements = s[3][2]
        /\ ForcedCeilingPlacements = s[3][3]
  /\ GenerationSeed = 0
  /\ bUseRandomSeed = TRUE
  /\ bIsGenerated = FALSE
  /\ RuntimeGrid = EmptyGrid
  /\ GridOrder = <<>>
  /\ RandomStream = 0
  /\ DoorwaySnapPoints = NoSnapPoints
  /\ FloorContainer = {}
  /\ WallContainer = {}
  /\ DoorContainer = {}
  /\ CeilingContainer = {}
  /\ pc = "idle"
  /\ idx = 0
  /\ SelectedShape = DefaultShape
  /\ bAllPlacementsSucceeded = TRUE
  /\ SortedTiles = <<>>
  /\ calls = <<>>
  /\ nCalls = 0
  /\ streamSeed = 0
  /\ forcedAccepted = {}
  /\ forcedRejected = {}
  /\ multiVisit = {}
  /\ singleVisit = {}
  /\ phasesRun = {}
  /\ lastRun = {}
  /\ runMemo = {}
  /\ lastCall = "None"

(***************************************************************************)
(* History records                                                         *)
(***************************************************************************)
\* one call of TryPlaceMultiCellMesh or ReserveCellsForFootprint
CallRecord(op, bl, cx, cy, mesh, ret, before, after) ==
  [op |-> op, BottomLeftCell |-> bl, CellsX |-> cx, CellsY |-> cy,
   Mesh |-> mesh, ret |-> ret, before |-> before, after |-> after]

TryPlaceCall(grid, bl, tile) ==
  CallRecord("TryPlaceMultiCellMesh", bl, tile.CellsX, tile.CellsY, tile.Mesh,
             TryPlaceMultiCellMeshRet(grid, bl, tile), grid,
             TryPlaceMultiCellMeshGrid(grid, bl, tile))

ReserveCall(grid, bl, cx, cy) ==
  CallRecord("ReserveCellsForFootprint", bl, cx, cy, "None",
             ReserveCellsForFootprintRet(grid, bl, cx, cy), grid,
             ReserveCellsForFootprintGrid(grid, bl, cx, cy))

\* what a GenerateRoom run produced
RunRecord(seed, useRandom, completed, shape, grid, order, floor, wall, ceiling) ==
  [Seed |-> seed, UseRandom |-> useRandom, Completed |-> completed,
   SelectedShape |-> shape, RuntimeGrid |-> grid, GridOrder |-> order,
   FloorContainer |-> floor, WallContainer |-> wall,
   CeilingContainer |-> ceiling]

\* the run that has just returned; Rerun: a run with the same fixed seed
\* returned before it
LastRun(memo, r) ==
  [Run |-> r,
   Rerun |-> ~r.UseRandom /\ \E m \in memo : m.Seed = r.Seed]

\* the first run of every fixed seed is remembered
Remember(memo, r) ==
  IF r.UseRandom \/ \E m \in memo : m.Seed = r.Seed
  THEN memo
  ELSE memo \cup {r}

(***************************************************************************)
(* AMasterRoom::CleanupRoom                                                *)
(***************************************************************************)
\* variant: the children of CeilingContainer are not destroyed
CleanupEffects_KeepCeiling ==
  /\ FloorContainer' = {}
  /\ WallContainer' = {}
  /\ DoorContainer' = {}
  /\ CeilingContainer' = CeilingContainer
  /\ DoorwaySnapPoints' = NoSnapPoints

\* what CleanupRoom assigns, also when called at the top of GenerateRoom
CleanupEffects ==
  /\ FloorContainer' = {}
  /\ WallContainer' = {}
  /\ DoorContainer' = {}
  /\ CeilingContainer' = {}
  /\ DoorwaySnapPoints' = NoSnapPoints

CleanupRoom ==
  /\ pc = "idle"
  /\ revision = "map"
  /\ CleanupEffects
  /\ RuntimeGrid' = EmptyGrid
  /\ GridOrder' = <<>>
  /\ bIsGenerated' = FALSE
  /\ calls' = <<>>
  /\ nCalls' = 0
  /\ phasesRun' = {}
  /\ lastCall' = "Cleanup"
  /\ UNCHANGED <<config, seeding, RandomStream, pc, locals, streamSeed,
                 forcedLog, floorLog, lastRun, runMemo>>

(***************************************************************************)
(* AMasterRoom::GenerateRoom, up to and including InitializeGrid           *)
(***************************************************************************)
\* the shape GenerateRoom selects from a freshly initialised stream:
\* <<found, shape, stream after the draw>>
SelectShape(stream) ==
  IF bUseShapeOverride
  THEN <<TRUE, ShapeOverride, stream>>
  ELSE IF Len(RoomData.AllowedShapes) > 0
  THEN LET ShapeIndex ==
             RandRange(stream, 0, Len(RoomData.AllowedShapes) - 1)
       IN <<TRUE, RoomData.AllowedShapes[ShapeIndex + 1], MutateSeed(stream)>>
  ELSE <<FALSE, DefaultShape, stream>>

\* variant: the stream is not re-initialised and continues where the
\* previous run left it
SeedStream_Continue(InSeed, oldStream) == oldStream

\* the stream GenerateRoom draws from after seeding with InSeed
SeedStream(InSeed, oldStream) == RandomStreamInitialize(InSeed)

\* GenerateRoom called with the seed properties (seed, useRandom)
GenerateRoomFrom(seed, useRandom) ==
  /\ pc = "idle"
  /\ revision = "map"
  /\ CleanupEffects
  /\ bIsGenerated' = FALSE
  /\ bUseRandomSeed' = useRandom
  /\ calls' = <<>>
  /\ nCalls' = 0
  /\ forcedAccepted' = {}
  /\ forcedRejected' = {}
  /\ multiVisit' = {}
  /\ singleVisit' = {}
  /\ phasesRun' = {}
  /\ SortedTiles' = <<>>
  /\ bAllPlacementsSucceeded' = TRUE
  /\ UNCHANGED config
  /\ IF RoomData.IsNull \/ ~RoomData.Loads
     THEN \* early return before seeding
          /\ GenerationSeed' = seed
          /\ RuntimeGrid' = EmptyGrid
          /\ GridOrder' = <<>>
          /\ lastRun' = {}
          /\ lastCall' = "Aborted"
          /\ UNCHANGED <<RandomStream, pc, idx, SelectedShape, streamSeed,
                         runMemo>>
     ELSE \E newSeed \in (IF useRandom THEN Seeds ELSE {seed}) :
            LET sel == SelectShape(SeedStream(newSeed, RandomStream))
            IN /\ GenerationSeed' = newSeed
               /\ streamSeed' = newSeed
               /\ RandomStream' = sel[3]
               /\ SelectedShape' = sel[2]
               /\ IF sel[1]
                  THEN /\ RuntimeGrid' = InitializeGrid(sel[2])
                       /\ GridOrder' = InitializeGridOrder(sel[2])
                       /\ pc' = "forced"
                       /\ idx' = 1
                       /\ lastRun' = {}
                       /\ lastCall' = "Running"
                       /\ UNCHANGED runMemo
                  ELSE \* no allowed shapes and no override
                       LET r == RunRecord(newSeed, useRandom, FALSE, sel[2],
                                          EmptyGrid, <<>>, {}, {}, {})
                       IN /\ RuntimeGrid' = EmptyGrid
                          /\ GridOrder' = <<>>
                          /\ lastRun' = {LastRun(runMemo, r)}
                          /\ runMemo' = Remember(runMemo, r)
                          /\ lastCall' = "Aborted"
                          /\ UNCHANGED <<pc, idx>>

GenerateRoom == GenerateRoomFrom(GenerationSeed, bUseRandomSeed)

\* AMasterRoom::RegenerateRoom(int32 NewSeed)
RegenerateRoom == \E NewSeed \in Seeds : GenerateRoomFrom(NewSeed, FALSE)


(***************************************************************************)
(* AMasterRoom::ApplyForcedPlacements                                      *)
(***************************************************************************)
Tag(entries, container) ==
  [i \in 1..Len(entries) |->
     [Key |-> entries[i].Key, Value |-> entries[i].Value,
      Container |-> container]]

\* the placements in the order the three loops visit them
ForcedAll ==
  Tag(ForcedFloorPlacements, "Floor") \o Tag(ForcedWallPlacements, "Wall")
    \o Tag(ForcedCeilingPlacements, "Ceiling")

ForcedFootprint(i) ==
  Footprint(ForcedAll[i].Key, ForcedAll[i].Value.CellsX,
            ForcedAll[i].Value.CellsY)

\* one iteration of the placement loops
ApplyForcedPlacementsStep ==
  /\ pc = "forced"
  /\ idx <= Len(ForcedAll)
  /\ LET BottomLeftCell == ForcedAll[idx].Key
         PlacementData == ForcedAll[idx].Value
         Container == ForcedAll[idx].Container
         reserve == ReserveCall(RuntimeGrid, BottomLeftCell,
                                PlacementData.CellsX, PlacementData.CellsY)
         place == TryPlaceCall(reserve.after, BottomLeftCell, PlacementData)
     IN IF CheckFootprintOverlap(RuntimeGrid, BottomLeftCell,
                                 PlacementData.CellsX, PlacementData.CellsY)
        THEN /\ bAllPlacementsSucceeded' = FALSE
             /\ forcedRejected' = forcedRejected \cup {idx}
             /\ calls' = <<>>
             /\ UNCHANGED <<RuntimeGrid, containers, forcedAccepted>>
        ELSE IF reserve.ret
        THEN /\ RuntimeGrid' = place.after
             /\ FloorContainer' =
                  IF Container = "Floor"
                  THEN TryPlaceMultiCellMeshSpawn(reserve.after,
                         BottomLeftCell, PlacementData, FloorContainer)
                  ELSE FloorContainer
             /\ WallContainer' =
                  IF Container = "Wall"
                  THEN TryPlaceMultiCellMeshSpawn(reserve.after,
                         BottomLeftCell, PlacementData, WallContainer)
                  ELSE WallContainer
             /\ CeilingContainer' =
                  IF Container = "Ceiling"
                  THEN TryPlaceMultiCellMeshSpawn(reserve.after,
                         BottomLeftCell, PlacementData, CeilingContainer)
                  ELSE CeilingContainer
             /\ forcedAccepted' = forcedAccepted \cup {idx}
             /\ calls' = <<reserve, place>>
             /\ UNCHANGED <<DoorContainer, bAllPlacementsSucceeded,
                            forcedRejected>>
        ELSE /\ calls' = <<reserve>>
             /\ RuntimeGrid' = reserve.after
             /\ UNCHANGED <<containers, bAllPlacementsSucceeded, forcedLog>>
  /\ idx' = idx + 1
  /\ UNCHANGED <<config, seeding, bIsGenerated, GridOrder, RandomStream,
                 DoorwaySnapPoints, pc, SelectedShape, SortedTiles, nCalls,
                 streamSeed, floorLog, phasesRun, runLog>>

\* variant: GenerateRoom returns when ApplyForcedPlacements reports failure
AfterForcedPlacements_AbortOnFailure(result) ==
  IF result THEN "floor" ELSE "idle"

\* the phase GenerateRoom enters when ApplyForcedPlacements has returned
\* the given value
AfterForcedPlacements(result) == "floor"

\* return bAllPlacementsSucceeded, and GenerateRoom's test of it
ApplyForcedPlacementsReturn ==
  /\ pc = "forced"
  /\ idx > Len(ForcedAll)
  /\ pc' = AfterForcedPlacements(bAllPlacementsSucceeded)
  /\ phasesRun' = phasesRun \cup {"forced"}
  /\ calls' = <<>>
  /\ UNCHANGED <<config, seeding, bIsGenerated, RuntimeGrid, GridOrder,
                 RandomStream, DoorwaySnapPoints, containers, locals, nCalls,
                 streamSeed, forcedLog, floorLog, runLog>>

(***************************************************************************)
(* AMasterRoom::GenerateFloor                                              *)
(***************************************************************************)
Area(tile) == tile.CellsX * tile.CellsY

IsSingleCell(tile) == tile.CellsX = 1 /\ tile.CellsY = 1

\* the sort predicate of GenerateFloor: A goes before B
LargestFirst(A, B) == Area(A) > Area(B)

\* TArray::Sort with the predicate: t is put behind every element that the
\* predicate does not put behind t
RECURSIVE SortTiles(_)
SortTiles(tiles) ==
  IF tiles = <<>> THEN <<>>
  ELSE LET front == SortTiles(SubSeq(tiles, 1, Len(tiles) - 1))
           t == tiles[Len(tiles)]
           k == Cardinality({i \in 1..Len(front) : ~LargestFirst(t, front[i])})
       IN SubSeq(front, 1, k) \o <<t>> \o SubSeq(front, k + 1, Len(front))

\* the early returns of GenerateFloor
FloorDataUsable ==
  /\ RoomData.Loads
  /\ RoomData.FloorData.IsValid
  /\ Len(RoomData.FloorData.Tiles) # 0

GenerateFloorBegin ==
  /\ pc = "floor"
  /\ phasesRun' = phasesRun \cup {"floor"}
  /\ calls' = <<>>
  /\ IF FloorDataUsable
     THEN /\ SortedTiles' = SortTiles(RoomData.FloorData.Tiles)
          /\ pc' = "floorMulti"
          /\ idx' = 1
     ELSE /\ pc' = "walls"
          /\ UNCHANGED <<SortedTiles, idx>>
  /\ UNCHANGED <<config, seeding, bIsGenerated, RuntimeGrid, GridOrder,
                 RandomStream, DoorwaySnapPoints, containers, SelectedShape,
                 bAllPlacementsSucceeded, nCalls, streamSeed, forcedLog,
                 floorLog, runLog>>

\* the inner loop at Cell from tile i on: the tiles tried, each with its
\* TryPlaceMultiCellMesh call, up to the first call that returns true
RECURSIVE MultiCellCalls(_, _, _, _)
MultiCellCalls(grid, Cell, tiles, i) ==
  IF i > Len(tiles) THEN <<>>
  ELSE IF IsSingleCell(tiles[i]) THEN MultiCellCalls(grid, Cell, tiles, i + 1)
  ELSE LET call == TryPlaceCall(grid, Cell, tiles[i])
           this == [Tile |-> i, Call |-> call]
       IN IF call.ret THEN <<this>>
          ELSE <<this>> \o MultiCellCalls(call.after, Cell, tiles, i + 1)

CallsOf(tried) == [j \in 1..Len(tried) |-> tried[j].Call]

\* first loop of GenerateFloor: one cell of RuntimeGrid
GenerateFloorMultiCellStep ==
  /\ pc = "floorMulti"
  /\ idx <= Len(GridOrder)
  /\ LET Cell == GridOrder[idx]
         skip == RuntimeGrid[Cell].CellState # "Unoccupied"
         tried == IF skip THEN <<>>
                  ELSE MultiCellCalls(RuntimeGrid, Cell, SortedTiles, 1)
         last == tried[Len(tried)]
         bPlaced == tried # <<>> /\ last.Call.ret
     IN /\ calls' = CallsOf(tried)
        /\ RuntimeGrid' = IF tried = <<>> THEN RuntimeGrid ELSE last.Call.after
        /\ FloorContainer' =
             IF tried = <<>> THEN FloorContainer
             ELSE TryPlaceMultiCellMeshSpawn(last.Call.before, Cell,
                                             SortedTiles[last.Tile],
                                             FloorContainer)
        /\ multiVisit' =
             IF skip THEN multiVisit
             ELSE multiVisit \cup
                    {[Cell |-> Cell, Before |-> RuntimeGrid,
                      Placed |-> IF bPlaced THEN {last.Tile} ELSE {}]}
  /\ idx' = idx + 1
  /\ UNCHANGED <<config, seeding, bIsGenerated, GridOrder, RandomStream,
                 DoorwaySnapPoints, WallContainer, DoorContainer,
                 CeilingContainer, pc, SelectedShape, bAllPlacementsSucceeded,
                 SortedTiles, nCalls, streamSeed, forcedLog, singleVisit,
                 phasesRun, runLog>>

\* end of the first loop
GenerateFloorMultiCellDone ==
  /\ pc = "floorMulti"
  /\ idx > Len(GridOrder)
  /\ pc' = "floorSingle"
  /\ idx' = 1
  /\ calls' = <<>>
  /\ UNCHANGED <<config, seeding, bIsGenerated, RuntimeGrid, GridOrder,
                 RandomStream, DoorwaySnapPoints, containers, SelectedShape,
                 bAllPlacementsSucceeded, SortedTiles, nCalls, streamSeed,
                 forcedLog, floorLog, phasesRun, runLog>>

\* the single-cell tiles of FloorTiles, in array order
SingleCellTiles(tiles) == SelectSeq(tiles, IsSingleCell)

\* the weight accumulated over the first n tiles
RECURSIVE AccumulatedWeight(_, _)
AccumulatedWeight(tiles, n) ==
  IF n = 0 THEN 0
  ELSE AccumulatedWeight(tiles, n - 1) + tiles[n].SelectionWeight

\* variant: the comparison of the scan is written the wrong way round
ScanAccepts_Reversed(value, accumulated) == value >= accumulated * RandMod

\* the comparison that accepts a tile in the cumulative-weight scan, on the
\* exact values RandomValue = value/RandMod and the accumulated weight
ScanAccepts(value, accumulated) == value <= accumulated * RandMod

\* the cumulative-weight scan: RandomValue is FRandRange(0, TotalWeight),
\* i.e. fraction * TotalWeight / RandMod; the result is the index of the
\* tile at which the scan breaks, 0 if it never does
WeightedSelect(tiles, fraction) ==
  LET TotalWeight == AccumulatedWeight(tiles, Len(tiles))
      hit == {i \in 1..Len(tiles) :
                ScanAccepts(fraction * TotalWeight,
                            AccumulatedWeight(tiles, i))}
  IN IF hit = {} THEN 0 ELSE CHOOSE i \in hit : \A j \in hit : i <= j

\* second loop of GenerateFloor: one cell of RuntimeGrid
GenerateFloorSingleCellStep ==
  /\ pc = "floorSingle"
  /\ idx <= Len(GridOrder)
  /\ LET Cell == GridOrder[idx]
         singles == SingleCellTiles(RoomData.FloorData.Tiles)
         draws == /\ RuntimeGrid[Cell].CellState = "Unoccupied"
                  /\ Len(singles) > 0
         fraction == MutateSeed(RandomStream)
         pick == WeightedSelect(singles, fraction)
         call == TryPlaceCall(RuntimeGrid, Cell, singles[pick])
     IN IF draws
        THEN /\ RandomStream' = fraction
             /\ singleVisit' =
                  singleVisit \cup
                    {[Cell |-> Cell, Before |-> RuntimeGrid,
                      Tiles |-> singles, Fraction |-> fraction,
                      Selected |-> pick,
                      Placed |-> pick # 0 /\ call.ret]}
             /\ IF pick # 0
                THEN /\ RuntimeGrid' = call.after
                     /\ FloorContainer' =
                          TryPlaceMultiCellMeshSpawn(RuntimeGrid, Cell,
                            singles[pick], FloorContainer)
                     /\ calls' = <<call>>
                ELSE /\ calls' = <<>>
                     /\ UNCHANGED <<RuntimeGrid, FloorContainer>>
        ELSE /\ calls' = <<>>
             /\ UNCHANGED <<RuntimeGrid, FloorContainer, RandomStream,
                            singleVisit>>
  /\ idx' = idx + 1
  /\ UNCHANGED <<config, seeding, bIsGenerated, GridOrder, DoorwaySnapPoints,
                 WallContainer, DoorContainer, CeilingContainer, pc,
                 SelectedShape, bAllPlacementsSucceeded, SortedTiles, nCalls,
                 streamSeed, forcedLog, multiVisit, phasesRun, runLog>>

\* end of the second loop: GenerateFloor returns
GenerateFloorSingleCellDone ==
  /\ pc = "floorSingle"
  /\ idx > Len(GridOrder)
  /\ pc' = "walls"
  /\ calls' = <<>>
  /\ UNCHANGED <<config, seeding, bIsGenerated, RuntimeGrid, GridOrder,
                 RandomStream, DoorwaySnapPoints, containers, locals, nCalls,
                 streamSeed, forcedLog, floorLog, phasesRun, runLog>>

(***************************************************************************)
(* AMasterRoom::GenerateWalls                                              *)
(***************************************************************************)
\* "If neighbor doesn't exist or is unoccupied, we need a wall"
NeedsWall(grid, Neighbor) ==
  Neighbor \notin DOMAIN grid \/ grid[Neighbor].CellState = "Unoccupied"

\* first loop of GenerateWalls: the wall flags of the Occupied cells
DetectWalls(grid) ==
  [c \in DOMAIN grid |->
     IF grid[c].CellState # "Occupied" THEN grid[c]
     ELSE [grid[c] EXCEPT
             !.bHasNorthWall = NeedsWall(grid, <<c[1], c[2] + 1>>),
             !.bHasEastWall = NeedsWall(grid, <<c[1] + 1, c[2]>>),
             !.bHasSouthWall = NeedsWall(grid, <<c[1], c[2] - 1>>),
             !.bHasWestWall = NeedsWall(grid, <<c[1] - 1, c[2]>>)]]

\* second loop of GenerateWalls: the wall components spawned
WallComponents(grid, DefaultWallSegment) ==
  LET wall(c) == [North |-> grid[c].bHasNorthWall /\ ~grid[c].bHasNorthDoorway,
                  East |-> grid[c].bHasEastWall /\ ~grid[c].bHasEastDoorway,
                  South |-> grid[c].bHasSouthWall /\ ~grid[c].bHasSouthDoorway,
                  West |-> grid[c].bHasWestWall /\ ~grid[c].bHasWestDoorway]
  IN {Component(c, DefaultWallSegment, d) :
        <<c, d>> \in {p \in (DOMAIN grid) \X {"North", "East", "South", "West"} :
                        /\ grid[p[1]].CellState = "Occupied"
                        /\ wall(p[1])[p[2]]
                        /\ DefaultWallSegment.Mesh # "None"}}

WallDataUsable ==
  /\ RoomData.Loads
  /\ RoomData.WallData.IsValid
  /\ Len(RoomData.WallData.Tiles) # 0

GenerateWalls ==
  /\ pc = "walls"
  /\ pc' = "ceiling"
  /\ phasesRun' = phasesRun \cup {"walls"}
  /\ calls' = <<>>
  /\ IF WallDataUsable
     THEN /\ RuntimeGrid' = DetectWalls(RuntimeGrid)
          /\ WallContainer' =
               WallContainer \cup
                 WallComponents(DetectWalls(RuntimeGrid),
                                RoomData.WallData.Tiles[1])
     ELSE UNCHANGED <<RuntimeGrid, WallContainer>>
  /\ UNCHANGED <<config, seeding, bIsGenerated, GridOrder, RandomStream,
                 DoorwaySnapPoints, FloorContainer, DoorContainer,
                 CeilingContainer, locals, nCalls, streamSeed, forcedLog,
                 floorLog, runLog>>

(***************************************************************************)
(* AMasterRoom::GenerateCeiling                                            *)
(***************************************************************************)
\* bCanPlace: the tile covers Occupied cells no ceiling tile covers yet
CeilingCanPlace(grid, ProcessedCells, Cell, TileData) ==
  \A CheckCoord \in Footprint(Cell, TileData.CellsX, TileData.CellsY) :
     /\ CheckCoord \in DOMAIN grid
     /\ grid[CheckCoord].CellState = "Occupied"
     /\ CheckCoord \notin ProcessedCells

\* the tile placed at Cell: the first in sorted order that fits and loads
CeilingTileAt(grid, ProcessedCells, Cell, tiles) ==
  LET ok == {i \in 1..Len(tiles) :
               /\ CeilingCanPlace(grid, ProcessedCells, Cell, tiles[i])
               /\ tiles[i].Mesh # "None"}
  IN IF ok = {} THEN 0 ELSE CHOOSE i \in ok : \A j \in ok : i <= j

\* the loop over RuntimeGrid from position i on: the components spawned
RECURSIVE CeilingComponents(_, _, _, _, _)
CeilingComponents(grid, order, tiles, ProcessedCells, i) ==
  IF i > Len(order) THEN {}
  ELSE LET Cell == order[i]
           t == CeilingTileAt(grid, ProcessedCells, Cell, tiles)
       IN IF grid[Cell].CellState # "Occupied" \/ Cell \in ProcessedCells
             \/ t = 0
          THEN CeilingComponents(grid, order, tiles, ProcessedCells, i + 1)
          ELSE {Component(Cell, tiles[t], "None")}
                 \cup CeilingComponents(grid, order, tiles,
                        ProcessedCells
                          \cup Footprint(Cell, tiles[t].CellsX,
                                         tiles[t].CellsY),
                        i + 1)

CeilingDataUsable ==
  /\ RoomData.Loads
  /\ RoomData.CeilingData.IsValid
  /\ Len(RoomData.CeilingData.Tiles) # 0

GenerateCeiling ==
  /\ pc = "ceiling"
  /\ pc' = "finish"
  /\ phasesRun' = phasesRun \cup {"ceiling"}
  /\ calls' = <<>>
  /\ CeilingContainer' =
       IF CeilingDataUsable
       THEN CeilingContainer \cup
              CeilingComponents(RuntimeGrid, GridOrder,
                                SortTiles(RoomData.CeilingData.Tiles), {}, 1)
       ELSE CeilingContainer
  /\ UNCHANGED <<config, seeding, bIsGenerated, RuntimeGrid, GridOrder,
                 RandomStream, DoorwaySnapPoints, FloorContainer,
                 WallContainer, DoorContainer, locals, nCalls, streamSeed,
                 forcedLog, floorLog, runLog>>

\* the tail of GenerateRoom: bIsGenerated = true
GenerateRoomFinish ==
  /\ pc = "finish"
  /\ pc' = "idle"
  /\ bIsGenerated' = TRUE
  /\ calls' = <<>>
  /\ LET r == RunRecord(GenerationSeed, bUseRandomSeed, TRUE, SelectedShape,
                        RuntimeGrid, GridOrder, FloorContainer, WallContainer,
                        CeilingContainer)
     IN /\ lastRun' = {LastRun(runMemo, r)}
        /\ runMemo' = Remember(runMemo, r)
  /\ lastCall' = "Completed"
  /\ UNCHANGED <<config, seeding, RuntimeGrid, GridOrder, RandomStream,
                 DoorwaySnapPoints, containers, locals, nCalls, streamSeed,
                 forcedLog, floorLog, phasesRun>>

(***************************************************************************)
(* The array revision of AMasterRoom (TArray<FGridCell> Grid):             *)
(* GenerateRoom, ClearRoom, InitializeGrid(), ApplyForcedPlacements,       *)
(* GenerateFloorTiles, GenerateWalls, GenerateCeiling, GenerateDoorways.   *)
(* Grid is kept in the same two variables: RuntimeGrid holds the cells by  *)
(* their GridCoordinates, GridOrder the order of the array.                *)
(***************************************************************************)
\* AMasterRoom::LoadRoomData: RoomData.IsValid() and LoadSynchronous()
LoadRoomData == ~RoomData.IsNull /\ RoomData.Loads

\* AMasterRoom::GetActiveRoomShape
GetActiveRoomShape ==
  IF bUseShapeOverride THEN ShapeOverride
  ELSE IF RoomData.Loads /\ Len(RoomData.AllowedShapes) > 0
  THEN RoomData.AllowedShapes[1]
  ELSE DefaultShape

\* the sequence of Grid.Add calls InitializeGrid() makes for a shape
ShapeAddsArray(ActiveShape) ==
  CASE ActiveShape.ShapeType = "Rectangle" ->
         Block(0, ActiveShape.RectWidth, 0, ActiveShape.RectHeight)
    [] ActiveShape.ShapeType = "Custom" ->
         IF Len(ActiveShape.CustomCellLayout)
              # ActiveShape.CustomLayoutWidth * ActiveShape.CustomLayoutHeight
         THEN <<>>
         ELSE CustomCells(ActiveShape)
    [] OTHER -> Block(0, ActiveShape.RectWidth, 0, ActiveShape.RectHeight)

\* Grid after InitializeGrid()
InitializeGridArray(ActiveShape) ==
  [c \in SeqToSet(ShapeAddsArray(ActiveShape)) |-> NewCell(c)]

\* variant: only the anchor cell is tested
CanPlaceMeshAt_AnchorOnly(grid, BottomLeft, CellsX, CellsY) ==
  /\ BottomLeft \in DOMAIN grid
  /\ grid[BottomLeft].CellState = "Unoccupied"

\* AMasterRoom::CanPlaceMeshAt
CanPlaceMeshAt(grid, BottomLeft, CellsX, CellsY) ==
  \A CheckCoord \in Footprint(BottomLeft, CellsX, CellsY) :
     /\ CheckCoord \in DOMAIN grid
     /\ grid[CheckCoord].CellState = "Unoccupied"

\* AMasterRoom::MarkCellsOccupied
MarkCellsOccupied(grid, BottomLeft, CellsX, CellsY) ==
  MarkCells(grid, Footprint(BottomLeft, CellsX, CellsY), "Occupied")

\* AMasterRoom::SpawnMeshAtPosition behind the callers' Mesh.IsValid() and
\* LoadSynchronous() tests: the rotation drawn for the component
SpawnRotation(stream, PlacementData) ==
  IF PlacementData.bAllowRotation THEN RandRange(stream, 0, 3) ELSE 0

\* ... the container afterwards
SpawnMeshAtPosition(stream, Cell, PlacementData, ParentComponent) ==
  IF PlacementData.Mesh = "None" THEN ParentComponent
  ELSE ParentComponent
         \cup {RotatedComponent(Cell, PlacementData,
                                SpawnRotation(stream, PlacementData))}

\* ... and the stream afterwards
SpawnStream(stream, PlacementData) ==
  IF PlacementData.Mesh # "None" /\ PlacementData.bAllowRotation
  THEN MutateSeed(stream)
  ELSE stream

\* variant: ClearRoom leaves bIsGenerated as it is
ClearRoomEffects_KeepGenerated ==
  /\ FloorContainer' = {}
  /\ WallContainer' = {}
  /\ DoorContainer' = {}
  /\ CeilingContainer' = {}
  /\ DoorwaySnapPoints' = NoSnapPoints
  /\ bIsGenerated' = bIsGenerated

\* what ClearRoom assigns
ClearRoomEffects ==
  /\ FloorContainer' = {}
  /\ WallContainer' = {}
  /\ DoorContainer' = {}
  /\ CeilingContainer' = {}
  /\ DoorwaySnapPoints' = NoSnapPoints
  /\ bIsGenerated' = FALSE

\* AMasterRoom::ClearRoom
ClearRoom ==
  /\ pc = "idle"
  /\ revision = "array"
  /\ ClearRoomEffects
  /\ RuntimeGrid' = EmptyGrid
  /\ GridOrder' = <<>>
  /\ calls' = <<>>
  /\ phasesRun' = {}
  /\ lastCall' = "Cleanup"
  /\ UNCHANGED <<config, seeding, RandomStream, pc, locals, nCalls,
                 streamSeed, forcedLog, floorLog, lastRun, runMemo>>

\* GenerateRoom of the array revision called with the seed properties
\* (seed, useRandom), up to and including InitializeGrid()
GenerateRoomArrayFrom(seed, useRandom) ==
  /\ pc = "idle"
  /\ revision = "array"
  /\ GenerationSeed' = seed
  /\ bUseRandomSeed' = useRandom
  /\ IF bIsGenerated
     THEN ClearRoomEffects
     ELSE UNCHANGED <<containers, DoorwaySnapPoints, bIsGenerated>>
  /\ calls' = <<>>
  /\ forcedAccepted' = {}
  /\ forcedRejected' = {}
  /\ multiVisit' = {}
  /\ singleVisit' = {}
  /\ phasesRun' = {}
  /\ lastRun' = {}
  /\ UNCHANGED <<config, bAllPlacementsSucceeded, SortedTiles, nCalls,
                 runMemo>>
  /\ IF ~LoadRoomData
     THEN /\ RuntimeGrid' = IF bIsGenerated THEN EmptyGrid ELSE RuntimeGrid
          /\ GridOrder' = IF bIsGenerated THEN <<>> ELSE GridOrder
          /\ lastCall' = "Aborted"
          /\ UNCHANGED <<RandomStream, pc, idx, SelectedShape, streamSeed>>
     ELSE \E InSeed \in (IF useRandom THEN Seeds ELSE {seed}) :
            /\ RandomStream' = SeedStream(InSeed, RandomStream)
            /\ streamSeed' = InSeed
            /\ SelectedShape' = GetActiveRoomShape
            /\ RuntimeGrid' = InitializeGridArray(GetActiveRoomShape)
            /\ GridOrder' = ShapeAddsArray(GetActiveRoomShape)
            /\ pc' = "forcedArray"
            /\ idx' = 1
            /\ lastCall' = "Running"

\* AMasterRoom::ApplyForcedPlacements of the array revision: one iteration
\* of the floor, wall and ceiling loops
ApplyForcedPlacementsArrayStep ==
  /\ pc = "forcedArray"
  /\ idx <= Len(ForcedAll)
  /\ LET BottomLeft == ForcedAll[idx].Key
         PlacementData == ForcedAll[idx].Value
         Container == ForcedAll[idx].Container
     IN IF ~CanPlaceMeshAt(RuntimeGrid, BottomLeft, PlacementData.CellsX,
                           PlacementData.CellsY)
        THEN /\ forcedRejected' = forcedRejected \cup {idx}
             /\ UNCHANGED <<RuntimeGrid, containers, RandomStream,
                            forcedAccepted>>
        ELSE /\ RuntimeGrid' =
                  MarkCellsOccupied(RuntimeGrid, BottomLeft,
                                    PlacementData.CellsX, PlacementData.CellsY)
             /\ FloorContainer' =
                  IF Container = "Floor"
                  THEN SpawnMeshAtPosition(RandomStream, BottomLeft,
                                           PlacementData, FloorContainer)
                  ELSE FloorContainer
             /\ WallContainer' =
                  IF Container = "Wall"
                  THEN SpawnMeshAtPosition(RandomStream, BottomLeft,
                                           PlacementData, WallContainer)
                  ELSE WallContainer
             /\ CeilingContainer' =
                  IF Container = "Ceiling"
                  THEN SpawnMeshAtPosition(RandomStream, BottomLeft,
                                           PlacementData, CeilingContainer)
                  ELSE CeilingContainer
             /\ RandomStream' = SpawnStream(RandomStream, PlacementData)
             /\ forcedAccepted' = forcedAccepted \cup {idx}
             /\ UNCHANGED <<DoorContainer, forcedRejected>>
  /\ idx' = idx + 1
  /\ calls' = <<>>
  /\ UNCHANGED <<config, seeding, bIsGenerated, GridOrder, DoorwaySnapPoints,
                 pc, SelectedShape, bAllPlacementsSucceeded, SortedTiles,
                 nCalls, streamSeed, floorLog, phasesRun, runLog>>

\* the end of the loops (ForcedDoorwayPlacements is empty): back in
\* GenerateRoom
ApplyForcedPlacementsArrayReturn ==
  /\ pc = "forcedArray"
  /\ idx > Len(ForcedAll)
  /\ pc' = "floorTiles"
  /\ phasesRun' = phasesRun \cup {"forced"}
  /\ UNCHANGED <<config, seeding, bIsGenerated, RuntimeGrid, GridOrder,
                 RandomStream, DoorwaySnapPoints, containers, locals, calls,
                 nCalls, streamSeed, forcedLog, floorLog, runLog>>

\* AMasterRoom::GenerateFloorTiles: the early returns and the sort
GenerateFloorTilesBegin ==
  /\ pc = "floorTiles"
  /\ phasesRun' = phasesRun \cup {"floor"}
  /\ IF FloorDataUsable
     THEN /\ SortedTiles' = SortTiles(RoomData.FloorData.Tiles)
          /\ pc' = "tilesMulti"
          /\ idx' = 1
     ELSE /\ pc' = "wallsArray"
          /\ UNCHANGED <<SortedTiles, idx>>
  /\ UNCHANGED <<config, seeding, bIsGenerated, RuntimeGrid, GridOrder,
                 RandomStream, DoorwaySnapPoints, containers, SelectedShape,
                 bAllPlacementsSucceeded, calls, nCalls, streamSeed,
                 forcedLog, floorLog, runLog>>

\* the acceptance test of the first pass on the exact values:
\* FRand() = value / RandMod against SelectionWeight / SELECTION_WEIGHT_SCALE
FRandAccepts(value, SelectionWeight) ==
  value * SELECTION_WEIGHT_SCALE <= SelectionWeight * RandMod

\* first pass of GenerateFloorTiles: one iteration of the cell loop inside
\* the tile loop; idx counts the (tile, cell) pairs, tile-major
GenerateFloorTilesMultiStep ==
  /\ pc = "tilesMulti"
  /\ idx <= Len(SortedTiles) * Len(GridOrder)
  /\ LET n == Len(GridOrder)
         t == ((idx - 1) \div n) + 1
         Cell == GridOrder[((idx - 1) % n) + 1]
         TileData == SortedTiles[t]
         fits == /\ RuntimeGrid[Cell].CellState = "Unoccupied"
                 /\ CanPlaceMeshAt(RuntimeGrid, Cell, TileData.CellsX,
                                   TileData.CellsY)
         drawn == MutateSeed(RandomStream)
         accepted == fits /\ FRandAccepts(drawn, TileData.SelectionWeight)
     IN IF IsSingleCell(TileData)
        THEN \* continue: the tile's cell loop is skipped
             /\ idx' = t * n + 1
             /\ UNCHANGED <<RuntimeGrid, FloorContainer, RandomStream,
                            multiVisit>>
        ELSE /\ idx' = idx + 1
             /\ RuntimeGrid' =
                  IF accepted
                  THEN MarkCellsOccupied(RuntimeGrid, Cell, TileData.CellsX,
                                         TileData.CellsY)
                  ELSE RuntimeGrid
             /\ FloorContainer' =
                  IF accepted
                  THEN SpawnMeshAtPosition(drawn, Cell, TileData,
                                           FloorContainer)
                  ELSE FloorContainer
             /\ RandomStream' =
                  IF accepted THEN SpawnStream(drawn, TileData)
                  ELSE IF fits THEN drawn
                  ELSE RandomStream
             /\ multiVisit' =
                  IF RuntimeGrid[Cell].CellState # "Unoccupied"
                  THEN multiVisit
                  ELSE multiVisit \cup
                         {[Cell |-> Cell, Before |-> RuntimeGrid,
                           Placed |-> IF accepted THEN {t} ELSE {}]}
  /\ UNCHANGED <<config, seeding, bIsGenerated, GridOrder, DoorwaySnapPoints,
                 WallContainer, DoorContainer, CeilingContainer, pc,
                 SelectedShape, bAllPlacementsSucceeded, SortedTiles, calls,
                 nCalls, streamSeed, forcedLog, singleVisit, phasesRun,
                 runLog>>

\* end of the first pass
GenerateFloorTilesMultiDone ==
  /\ pc = "tilesMulti"
  /\ idx > Len(SortedTiles) * Len(GridOrder)
  /\ pc' = "tilesSingle"
  /\ idx' = 1
  /\ UNCHANGED <<config, seeding, bIsGenerated, RuntimeGrid, GridOrder,
                 RandomStream, DoorwaySnapPoints, containers, SelectedShape,
                 bAllPlacementsSucceeded, SortedTiles, calls, nCalls,
                 streamSeed, forcedLog, floorLog, phasesRun, runLog>>

\* second pass of GenerateFloorTiles: one cell of Grid
GenerateFloorTilesSingleStep ==
  /\ pc = "tilesSingle"
  /\ idx <= Len(GridOrder)
  /\ SingleCellTiles(RoomData.FloorData.Tiles) # <<>>
  /\ LET Cell == GridOrder[idx]
         singles == SingleCellTiles(RoomData.FloorData.Tiles)
         drawn == MutateSeed(RandomStream)
         pick == WeightedSelect(singles, drawn)
     IN IF RuntimeGrid[Cell].CellState = "Unoccupied"
        THEN /\ singleVisit' =
                  singleVisit \cup
                    {[Cell |-> Cell, Before |-> RuntimeGrid,
                      Tiles |-> singles, Fraction |-> drawn,
                      Selected |-> pick, Placed |-> pick # 0]}
             /\ IF pick # 0
                THEN /\ RuntimeGrid' =
                          [RuntimeGrid EXCEPT ![Cell].CellState = "Occupied"]
                     /\ FloorContainer' =
                          SpawnMeshAtPosition(drawn, Cell, singles[pick],
                                              FloorContainer)
                     /\ RandomStream' = SpawnStream(drawn, singles[pick])
                ELSE /\ RandomStream' = drawn
                     /\ UNCHANGED <<RuntimeGrid, FloorContainer>>
        ELSE UNCHANGED <<RuntimeGrid, FloorContainer, RandomStream,
                         singleVisit>>
  /\ idx' = idx + 1
  /\ UNCHANGED <<config, seeding, bIsGenerated, GridOrder, DoorwaySnapPoints,
                 WallContainer, DoorContainer, CeilingContainer, pc,
                 SelectedShape, bAllPlacementsSucceeded, SortedTiles, calls,
                 nCalls, streamSeed, forcedLog, multiVisit, phasesRun,
                 runLog>>

\* end of the second pass: GenerateFloorTiles returns
GenerateFloorTilesSingleDone ==
  /\ pc = "tilesSingle"
  /\ \/ idx > Len(GridOrder)
     \/ SingleCellTiles(RoomData.FloorData.Tiles) = <<>>
  /\ pc' = "wallsArray"
  /\ UNCHANGED <<config, seeding, bIsGenerated, RuntimeGrid, GridOrder,
                 RandomStream, DoorwaySnapPoints, containers, locals, calls,
                 nCalls, streamSeed, forcedLog, floorLog, phasesRun, runLog>>

\* AMasterRoom::GenerateWalls of the array revision: it loads WallData and
\* places nothing
GenerateWallsArray ==
  /\ pc = "wallsArray"
  /\ pc' = "ceilingArray"
  /\ phasesRun' = phasesRun \cup {"walls"}
  /\ UNCHANGED <<config, seeding, bIsGenerated, RuntimeGrid, GridOrder,
                 RandomStream, DoorwaySnapPoints, containers, locals, calls,
                 nCalls, streamSeed, forcedLog, floorLog, runLog>>

\* the cell loop of GenerateCeiling from position i on:
\* <<components spawned, stream afterwards>>
RECURSIVE CeilingArrayLoop(_, _, _, _, _)
CeilingArrayLoop(grid, order, TileData, stream, i) ==
  IF i > Len(order) THEN <<{}, stream>>
  ELSE IF grid[order[i]].CellState \in {"Occupied", "Unoccupied"}
  THEN LET rest == CeilingArrayLoop(grid, order, TileData,
                                    SpawnStream(stream, TileData), i + 1)
       IN <<SpawnMeshAtPosition(stream, order[i], TileData, rest[1]),
            rest[2]>>
  ELSE CeilingArrayLoop(grid, order, TileData, stream, i + 1)

\* AMasterRoom::GenerateCeiling of the array revision: the first ceiling
\* tile over every cell
GenerateCeilingArray ==
  /\ pc = "ceilingArray"
  /\ pc' = "finishArray"
  /\ phasesRun' = phasesRun \cup {"ceiling"}
  /\ LET usable == /\ CeilingDataUsable
                   /\ RoomData.CeilingData.Tiles[1].Mesh # "None"
         loop == CeilingArrayLoop(RuntimeGrid, GridOrder,
                                  RoomData.CeilingData.Tiles[1],
                                  RandomStream, 1)
     IN /\ CeilingContainer' =
             IF usable THEN CeilingContainer \cup loop[1]
             ELSE CeilingContainer
        /\ RandomStream' = IF usable THEN loop[2] ELSE RandomStream
  /\ UNCHANGED <<config, seeding, bIsGenerated, RuntimeGrid, GridOrder,
                 DoorwaySnapPoints, FloorContainer, WallContainer,
                 DoorContainer, locals, calls, nCalls, streamSeed, forcedLog,
                 floorLog, runLog>>

\* the tail of GenerateRoom: GenerateDoorways (which places nothing) and
\* bIsGenerated = true
GenerateRoomArrayFinish ==
  /\ pc = "finishArray"
  /\ pc' = "idle"
  /\ bIsGenerated' = TRUE
  /\ LET r == RunRecord(streamSeed, bUseRandomSeed, TRUE, SelectedShape,
                        RuntimeGrid, GridOrder, FloorContainer, WallContainer,
                        CeilingContainer)
     IN /\ lastRun' = {LastRun(runMemo, r)}
        /\ runMemo' = Remember(runMemo, r)
  /\ lastCall' = "Completed"
  /\ UNCHANGED <<config, seeding, RuntimeGrid, GridOrder, RandomStream,
                 DoorwaySnapPoints, containers, locals, calls, nCalls,
                 streamSeed, forcedLog, floorLog, phasesRun>>

\* GenerateRoom of the array revision with the properties as they are
GenerateRoomArray == GenerateRoomArrayFrom(GenerationSeed, bUseRandomSeed)

\* AMasterRoom::RegenerateRoom(int32 NewSeed) in the array revision
RegenerateRoomArray ==
  \E NewSeed \in Seeds : GenerateRoomArrayFrom(NewSeed, FALSE)

(***************************************************************************)
(* The protected placement API called by a derived class on the generated  *)
(* grid                                                                    *)
(***************************************************************************)
TryPlaceMultiCellMesh ==
  /\ pc = "idle"
  /\ revision = "map"
  /\ bIsGenerated
  /\ nCalls < MaxCalls
  /\ \E BottomLeftCell \in CallCoords, PlacementData \in CallTiles :
        LET call == TryPlaceCall(RuntimeGrid, BottomLeftCell, PlacementData)
        IN /\ calls' = <<call>>
           /\ RuntimeGrid' = call.after
           /\ FloorContainer' =
                TryPlaceMultiCellMeshSpawn(RuntimeGrid, BottomLeftCell,
                                           PlacementData, FloorContainer)
  /\ nCalls' = nCalls + 1
  /\ UNCHANGED <<config, seeding, bIsGenerated, GridOrder, RandomStream,
                 DoorwaySnapPoints, WallContainer, DoorContainer,
                 CeilingContainer, pc, locals, streamSeed, forcedLog,
                 floorLog, phasesRun, runLog>>

ReserveCellsForFootprint ==
  /\ pc = "idle"
  /\ revision = "map"
  /\ bIsGenerated
  /\ nCalls < MaxCalls
  /\ \E BottomLeftCell \in CallCoords, PlacementData \in CallTiles :
        LET call == ReserveCall(RuntimeGrid, BottomLeftCell,
                                PlacementData.CellsX, PlacementData.CellsY)
        IN /\ calls' = <<call>>
           /\ RuntimeGrid' = call.after
  /\ nCalls' = nCalls + 1
  /\ UNCHANGED <<config, seeding, bIsGenerated, GridOrder, RandomStream,
                 DoorwaySnapPoints, containers, pc, locals, streamSeed,
                 forcedLog, floorLog, phasesRun, runLog>>

(***************************************************************************)
(* The RoomData property (EditAnywhere, BlueprintReadWrite)                *)
(***************************************************************************)
\* the designer clears the RoomData reference of the room
SetRoomData ==
  /\ pc = "idle"
  /\ ~RoomData.IsNull
  /\ RoomData' = NullRoomData
  /\ UNCHANGED <<revision, ShapeOverride, bUseShapeOverride,
                 ForcedFloorPlacements, ForcedWallPlacements,
                 ForcedCeilingPlacements, seeding, bIsGenerated, RuntimeGrid,
                 GridOrder, RandomStream, DoorwaySnapPoints, containers, pc,
                 locals, calls, nCalls, streamSeed, forcedLog, floorLog,
                 phasesRun, runLog>>

(***************************************************************************)
(* Specification                                                           *)
(***************************************************************************)
Next ==
  \/ GenerateRoom
  \/ RegenerateRoom
  \/ CleanupRoom
  \/ ApplyForcedPlacementsStep
  \/ ApplyForcedPlacementsReturn
  \/ GenerateFloorBegin
  \/ GenerateFloorMultiCellStep
  \/ GenerateFloorMultiCellDone
  \/ GenerateFloorSingleCellStep
  \/ GenerateFloorSingleCellDone
  \/ GenerateWalls
  \/ GenerateCeiling
  \/ GenerateRoomFinish
  \/ TryPlaceMultiCellMesh
  \/ ReserveCellsForFootprint
  \/ GenerateRoomArray
  \/ RegenerateRoomArray
  \/ ClearRoom
  \/ ApplyForcedPlacementsArrayStep
  \/ ApplyForcedPlacementsArrayReturn
  \/ GenerateFloorTilesBegin
  \/ GenerateFloorTilesMultiStep
  \/ GenerateFloorTilesMultiDone
  \/ GenerateFloorTilesSingleStep
  \/ GenerateFloorTilesSingleDone
  \/ GenerateWallsArray
  \/ GenerateCeilingArray
  \/ GenerateRoomArrayFinish
  \/ SetRoomData

Spec == Init /\ [][Next]_vars

(***************************************************************************)
(* Properties                                                              *)
(***************************************************************************)
CallFootprint(call) ==
  Footprint(call.BottomLeftCell, call.CellsX, call.CellsY)

\* some coordinate of the call's rectangle is absent or not Unoccupied
CallBlocked(call) ==
  \E c \in CallFootprint(call) :
     c \notin DOMAIN call.before \/ call.before[c].CellState # "Unoccupied"

\* the call's rectangle lies entirely on existing Unoccupied cells
CallClear(call) ==
  \A c \in CallFootprint(call) :
     c \in DOMAIN call.before /\ call.before[c].CellState = "Unoccupied"

\* the grid in the state is the grid the last recorded call left
CallsLeadToGrid == calls # <<>> => RuntimeGrid = calls[Len(calls)].after

\* C1: a call of TryPlaceMultiCellMesh or ReserveCellsForFootprint whose
\* rectangle has a coordinate that is absent from the grid or not Unoccupied
\* returns false and leaves every grid cell as it was.
C1_BlockedPlacementFailsUnchanged ==
  /\ CallsLeadToGrid
  /\ \A i \in 1..Len(calls) :
        CallBlocked(calls[i]) =>
          /\ ~calls[i].ret
          /\ calls[i].after = calls[i].before

\* a blocked call whose rectangle also covers a free cell of the grid
C1_Witness ==
  \E i \in 1..Len(calls) :
     /\ CallBlocked(calls[i])
     /\ \E c \in CallFootprint(calls[i]) :
           c \in DOMAIN calls[i].before
             /\ calls[i].before[c].CellState = "Unoccupied"

C3_SuccessMarksExactlyFootprint ==
  /\ CallsLeadToGrid
  /\ \A i \in 1..Len(calls) :
        calls[i].ret =>
          /\ Cardinality(CallFootprint(calls[i]))
               = calls[i].CellsX * calls[i].CellsY
          /\ CallFootprint(calls[i]) \subseteq DOMAIN calls[i].after
          /\ \A c \in CallFootprint(calls[i]) :
                calls[i].after[c].CellState =
                  IF calls[i].op = "TryPlaceMultiCellMesh"
                  THEN "Occupied" ELSE "Reserved"
          /\ DOMAIN calls[i].after = DOMAIN calls[i].before
          /\ \A c \in DOMAIN calls[i].before \ CallFootprint(calls[i]) :
                calls[i].after[c] = calls[i].before[c]

\* a successful reservation of several cells in a grid with other cells
C3_Witness ==
  \E i \in 1..Len(calls) :
     /\ calls[i].op = "ReserveCellsForFootprint"
     /\ calls[i].ret
     /\ calls[i].CellsX * calls[i].CellsY > 1
     /\ DOMAIN calls[i].before \ CallFootprint(calls[i]) # {}

(***************************************************************************)
(* Forced placements                                                       *)
(***************************************************************************)
\* the forced placements the loops of ApplyForcedPlacements have gone through
ForcedProcessed == IF pc = "forced" THEN 1..(idx - 1) ELSE {}

ForcedIntersect(i, j) == ForcedFootprint(i) \cap ForcedFootprint(j) # {}

\* the cells of forced placement j that no accepted forced placement covers
ForcedOwnCells(j) ==
  {c \in ForcedFootprint(j) : \A k \in forcedAccepted : c \notin ForcedFootprint(k)}

InForcedPhase == pc \in {"forced", "forcedArray"}

\* the forced placements the running ApplyForcedPlacements has evaluated
ForcedEvaluated == IF InForcedPhase THEN 1..(idx - 1) ELSE {}

C6_RejectionDoesNotAbort ==
  ("forced" \in phasesRun /\ ~bAllPlacementsSucceeded) =>
     IF pc = "idle"
     THEN /\ bIsGenerated
          /\ {"floor", "walls", "ceiling"} \subseteq phasesRun
     ELSE pc \in {"floor", "floorMulti", "floorSingle", "walls", "ceiling",
                  "finish"}

\* a run with a rejected forced placement has finished, and floor and wall
\* generation worked on the remaining cells
C6_Witness ==
  /\ pc = "idle"
  /\ "forced" \in phasesRun
  /\ ~bAllPlacementsSucceeded
  /\ forcedRejected # {}
  /\ bIsGenerated
  /\ FloorContainer # {}
  /\ WallContainer # {}

\* C7: generation is deterministic in its seed.  With bUseRandomSeed false,
\* a GenerateRoom run (in particular a re-run on a generated room, or after
\* runs with other seeds) ends in the same result as the first run with the
\* same GenerationSeed and the same RoomData, shape override and forced
\* placements: the same shape, the same cells in the same order with the
\* same states, and the same components with the same tile and rotation in
\* every container.
C7_SameSeedSameRoom ==
  \A l \in lastRun : \A m \in runMemo :
     (~l.Run.UseRandom /\ ~m.UseRandom /\ m.Seed = l.Run.Seed) =>
        /\ l.Run.Completed = m.Completed
        /\ l.Run.SelectedShape = m.SelectedShape
        /\ l.Run.RuntimeGrid = m.RuntimeGrid
        /\ l.Run.GridOrder = m.GridOrder
        /\ l.Run.FloorContainer = m.FloorContainer
        /\ l.Run.WallContainer = m.WallContainer
        /\ l.Run.CeilingContainer = m.CeilingContainer

\* a fixed-seed run has been repeated after a run with another seed, and
\* the repeated run drew from the stream for single-cell tiles
C7_Witness ==
  /\ pc = "idle"
  /\ \E l \in lastRun :
        /\ l.Rerun
        /\ l.Run.Completed
        /\ l.Run.FloorContainer # {}
        /\ \E m \in runMemo : m.Seed # l.Run.Seed /\ m.Completed
  /\ singleVisit # {}

(***************************************************************************)
(* Procedural floor fill                                                   *)
(***************************************************************************)
\* every cell of the tile's footprint anchored at Cell exists and is
\* Unoccupied
FootprintClear(grid, Cell, TileData) ==
  \A c \in Footprint(Cell, TileData.CellsX, TileData.CellsY) :
     c \in DOMAIN grid /\ grid[c].CellState = "Unoccupied"

\* the multi-cell tiles of the sorted list whose footprint fits at Cell
MultiCellFitting(grid, Cell) ==
  {i \in 1..Len(SortedTiles) :
     ~IsSingleCell(SortedTiles[i]) /\ FootprintClear(grid, Cell, SortedTiles[i])}

\* the first of them in the sorted order, as a set of at most one index
FirstMultiCellFitting(grid, Cell) ==
  {i \in MultiCellFitting(grid, Cell) :
     \A j \in MultiCellFitting(grid, Cell) : i <= j}

AllFloorMeshesLoad ==
  \A i \in 1..Len(SortedTiles) : SortedTiles[i].Mesh # "None"

\* C8: procedural floor fill is largest-area-first with single-cell
\* fallback.  When all tile meshes load: the tiles are tried in
\* non-increasing order of CellsX*CellsY; at every Unoccupied cell visited
\* as an anchor the multi-cell tile placed there, if any, is the first
\* multi-cell tile of that order whose footprint fits; and a single-cell
\* tile is placed on a cell only if no multi-cell footprint anchored at
\* that cell fits.
C8_LargestFirstSingleFallback ==
  AllFloorMeshesLoad =>
    /\ \A i \in 1..Len(SortedTiles) : \A j \in 1..Len(SortedTiles) :
          i < j => Area(SortedTiles[i]) >= Area(SortedTiles[j])
    /\ \A v \in multiVisit :
          v.Placed # {} => v.Placed = FirstMultiCellFitting(v.Before, v.Cell)
    /\ \A s \in singleVisit :
          s.Placed => MultiCellFitting(s.Before, s.Cell) = {}

\* the same statement for GenerateFloor of the map revision alone
C8_GenerateFloorLargestFirst == revision = "map" => C8_LargestFirstSingleFallback

\* a single-cell tile was placed where a multi-cell footprint still fitted
C8_Witness ==
  /\ AllFloorMeshesLoad
  /\ \E s \in singleVisit :
        s.Placed /\ MultiCellFitting(s.Before, s.Cell) # {}

(***************************************************************************)
(* Weighted single-cell selection                                          *)
(***************************************************************************)
\* the drawn value r = Fraction * TotalWeight / RandMod of a visit lies in
\* the half-open cumulative range of candidate i (both sides times RandMod)
InCumulativeRange(s, i) ==
  LET R == s.Fraction * AccumulatedWeight(s.Tiles, Len(s.Tiles))
  IN /\ AccumulatedWeight(s.Tiles, i - 1) * RandMod <= R
     /\ R < AccumulatedWeight(s.Tiles, i) * RandMod

\* C9: weighted single-cell selection.  For candidates with non-negative
\* weights summing to T and a drawn value r in [0,T), the cumulative-weight
\* scan selects exactly one candidate i, and r lies in the half-open range
\* [w_1+...+w_(i-1), w_1+...+w_i) of that candidate.
C9_SelectedRangeContainsDraw ==
  \A s \in singleVisit :
     AccumulatedWeight(s.Tiles, Len(s.Tiles)) > 0 =>
        /\ s.Selected \in 1..Len(s.Tiles)
        /\ InCumulativeRange(s, s.Selected)

\* the scan selected a candidate of weight zero
C9_Witness ==
  \E s \in singleVisit :
     /\ AccumulatedWeight(s.Tiles, Len(s.Tiles)) > 0
     /\ s.Selected \in 1..Len(s.Tiles)
     /\ s.Tiles[s.Selected].SelectionWeight = 0
     /\ s.Placed

(***************************************************************************)
(* Grid initialisation                                                     *)
(***************************************************************************)
\* the grid in RuntimeGrid is the one InitializeGrid made for SelectedShape
GridInitialised == pc # "idle" \/ bIsGenerated

\* C10: for a Rectangle shape with RectWidth = W and RectHeight = H the grid
\* InitializeGrid produces has exactly W*H cells, one for each coordinate of
\* [0,W) x [0,H) and none outside it, and every cell's GridCoordinates is
\* the coordinate under which it is stored.
C10_RectangleGridExact ==
  (GridInitialised /\ SelectedShape.ShapeType = "Rectangle") =>
     LET W == SelectedShape.RectWidth
         H == SelectedShape.RectHeight
     IN /\ DOMAIN RuntimeGrid = (0..(W - 1)) \X (0..(H - 1))
        /\ Cardinality(DOMAIN RuntimeGrid) = W * H
        /\ Len(GridOrder) = W * H
        /\ SeqToSet(GridOrder) = DOMAIN RuntimeGrid
        /\ \A c \in DOMAIN RuntimeGrid : RuntimeGrid[c].GridCoordinates = c

\* InitializeGrid has just built the grid of a rectangle that is wider than
\* it is high
C10_Witness ==
  /\ InForcedPhase
  /\ idx = 1
  /\ SelectedShape.ShapeType = "Rectangle"
  /\ SelectedShape.RectWidth > SelectedShape.RectHeight
  /\ SelectedShape.RectHeight > 1
  /\ Cardinality(DOMAIN RuntimeGrid)
       = SelectedShape.RectWidth * SelectedShape.RectHeight

(***************************************************************************)
(* Wall flags                                                              *)
(***************************************************************************)
\* GenerateRoom has returned after running to completion
RoomGenerated == pc = "idle" /\ bIsGenerated

\* the wall flags of a cell are those of the boundary of the W x H rectangle
BoundaryFlags(cell, W, H) ==
  /\ cell.bHasNorthWall <=> (cell.GridCoordinates[2] = H - 1)
  /\ cell.bHasSouthWall <=> (cell.GridCoordinates[2] = 0)
  /\ cell.bHasEastWall <=> (cell.GridCoordinates[1] = W - 1)
  /\ cell.bHasWestWall <=> (cell.GridCoordinates[1] = 0)

\* C11: after generating a W x H rectangle room, for every cell (x,y) of the
\* grid bHasNorthWall holds iff y = H-1, bHasSouthWall iff y = 0,
\* bHasEastWall iff x = W-1 and bHasWestWall iff x = 0.
C11_RectangleBoundaryWalls ==
  (RoomGenerated /\ SelectedShape.ShapeType = "Rectangle") =>
     \A c \in DOMAIN RuntimeGrid :
        BoundaryFlags(RuntimeGrid[c], SelectedShape.RectWidth,
                      SelectedShape.RectHeight)

\* the same statement for the rooms of the map revision in which GenerateWalls
\* had wall segments and found every cell Occupied
C11_OccupiedRectangleBoundaryWalls ==
  (/\ RoomGenerated
   /\ revision = "map"
   /\ SelectedShape.ShapeType = "Rectangle"
   /\ WallDataUsable
   /\ \A c \in DOMAIN RuntimeGrid : RuntimeGrid[c].CellState = "Occupied") =>
     \A c \in DOMAIN RuntimeGrid :
        BoundaryFlags(RuntimeGrid[c], SelectedShape.RectWidth,
                      SelectedShape.RectHeight)

\* a generated rectangle room of the map revision with wall segments in which
\* a cell on the south edge was claimed by a forced placement and carries no
\* south wall flag, next to Occupied cells that carry theirs
C11_Witness ==
  /\ RoomGenerated
  /\ revision = "map"
  /\ SelectedShape.ShapeType = "Rectangle"
  /\ WallDataUsable
  /\ \E c \in DOMAIN RuntimeGrid :
        /\ c[2] = 0
        /\ RuntimeGrid[c].CellState = "Reserved"
        /\ ~RuntimeGrid[c].bHasSouthWall
  /\ \E c \in DOMAIN RuntimeGrid :
        /\ c[2] = 0
        /\ RuntimeGrid[c].CellState = "Occupied"
        /\ RuntimeGrid[c].bHasSouthWall

\* the four neighbours of a coordinate with the flag that faces each
Directions == {"North", "East", "South", "West"}

Neighbor(c, d) ==
  CASE d = "North" -> <<c[1], c[2] + 1>>
    [] d = "East" -> <<c[1] + 1, c[2]>>
    [] d = "South" -> <<c[1], c[2] - 1>>
    [] d = "West" -> <<c[1] - 1, c[2]>>

WallFlag(cell, d) ==
  CASE d = "North" -> cell.bHasNorthWall
    [] d = "East" -> cell.bHasEastWall
    [] d = "South" -> cell.bHasSouthWall
    [] d = "West" -> cell.bHasWestWall

\* GenerateWalls has returned in the run in progress or in the last run, and
\* no placement call has changed the grid since
AfterGenerateWalls == "walls" \in phasesRun /\ nCalls = 0

\* C12: after GenerateWalls, for every Occupied cell and each of the four
\* directions, the wall flag of that direction is set exactly when the
\* neighbouring coordinate is not both present in the grid and Occupied.
C12_WallFlagsFromOccupiedNeighbours ==
  AfterGenerateWalls =>
    \A c \in DOMAIN RuntimeGrid : \A d \in Directions :
       RuntimeGrid[c].CellState = "Occupied" =>
          (WallFlag(RuntimeGrid[c], d) <=>
             ~(/\ Neighbor(c, d) \in DOMAIN RuntimeGrid
               /\ RuntimeGrid[Neighbor(c, d)].CellState = "Occupied"))

\* what GenerateWalls of the map revision does when it has wall segments:
\* the flag is set exactly when the neighbour is absent or Unoccupied
C12_WallFlagsFromUnoccupiedNeighbours ==
  (AfterGenerateWalls /\ revision = "map" /\ WallDataUsable) =>
    \A c \in DOMAIN RuntimeGrid : \A d \in Directions :
       RuntimeGrid[c].CellState = "Occupied" =>
          (WallFlag(RuntimeGrid[c], d) <=>
             \/ Neighbor(c, d) \notin DOMAIN RuntimeGrid
             \/ RuntimeGrid[Neighbor(c, d)].CellState = "Unoccupied")

\* GenerateWalls of the map revision had wall segments and left an Occupied
\* cell without the wall flag that faces a Reserved neighbour, while the
\* same cell carries the flag that faces the outside of the grid
C12_Witness ==
  /\ AfterGenerateWalls
  /\ revision = "map"
  /\ WallDataUsable
  /\ \E c \in DOMAIN RuntimeGrid : \E d \in Directions : \E e \in Directions :
        /\ RuntimeGrid[c].CellState = "Occupied"
        /\ Neighbor(c, d) \in DOMAIN RuntimeGrid
        /\ RuntimeGrid[Neighbor(c, d)].CellState = "Reserved"
        /\ ~WallFlag(RuntimeGrid[c], d)
        /\ Neighbor(c, e) \notin DOMAIN RuntimeGrid
        /\ WallFlag(RuntimeGrid[c], e)

(***************************************************************************)
(* Shape generation                                                        *)
(***************************************************************************)
\* InitializeGrid has just returned into GenerateRoom
AfterInitializeGrid == InForcedPhase /\ idx = 1

\* the coordinates (x,y) of a W x H layout array with layout[y*W + x] = 1
LayoutCells(Shape) ==
  {c \in (0..(Shape.CustomLayoutWidth - 1))
           \X (0..(Shape.CustomLayoutHeight - 1)) :
     Shape.CustomCellLayout[c[2] * Shape.CustomLayoutWidth + c[1] + 1] = 1}

RoomReset ==
  /\ RuntimeGrid = EmptyGrid
  /\ GridOrder = <<>>
  /\ DoorwaySnapPoints = NoSnapPoints
  /\ FloorContainer = {} /\ WallContainer = {}
  /\ DoorContainer = {} /\ CeilingContainer = {}
  /\ ~bIsGenerated

\* a step of CleanupRoom (ClearRoom in the array revision)
CleanupStep == CleanupRoom \/ ClearRoom

\* C15: CleanupRoom resets the room from any state.  After the call the grid
\* has no cells, the four doorway snap-point lists are empty, no container
\* holds a generated mesh and bIsGenerated is false; RoomData,
\* GenerationSeed, bUseRandomSeed, the shape override and the
\* forced-placement maps are as before the call; and a call on a room that
\* has just been cleaned up changes nothing.
C15_CleanupResetsRoom ==
  [][CleanupStep =>
       /\ RoomReset'
       /\ UNCHANGED <<RoomData, GenerationSeed, bUseRandomSeed, ShapeOverride,
                      bUseShapeOverride, ForcedFloorPlacements,
                      ForcedWallPlacements, ForcedCeilingPlacements>>
       /\ (lastCall = "Cleanup" => UNCHANGED vars)]_vars

\* a room that was generated with floor, wall and ceiling meshes and a
\* fixed seed has been cleaned up
C15_Witness ==
  /\ lastCall = "Cleanup"
  /\ RoomReset
  /\ ~bUseRandomSeed
  /\ \E l \in lastRun :
        /\ l.Run.Completed
        /\ l.Run.Seed = GenerationSeed
        /\ l.Run.FloorContainer # {}
        /\ l.Run.WallContainer # {}
        /\ l.Run.CeilingContainer # {}

(***************************************************************************)
(* Seeds                                                                   *)
(***************************************************************************)
\* GenerateRoom has seeded RandomStream in the run in progress, or in the
\* run that has just completed
ReachedSeeding == pc # "idle" \/ lastCall = "Completed"

\* C16: after any GenerateRoom that reaches seeding, GenerationSeed (the
\* value GetCurrentSeed returns) equals the value with which RandomStream
\* was initialised, also when bUseRandomSeed is true.
C16_CurrentSeedIsStreamSeed == ReachedSeeding => GenerationSeed = streamSeed

\* the same statement for GenerateRoom of the map revision alone
C16_MapRevisionStoresSeed ==
  revision = "map" => C16_CurrentSeedIsStreamSeed

\* a room of the array revision was generated from a random seed that
\* differs from GenerationSeed, and single-cell floor tiles were drawn from
\* the stream
C16_Witness ==
  /\ revision = "array"
  /\ lastCall = "Completed"
  /\ bUseRandomSeed
  /\ streamSeed # GenerationSeed
  /\ singleVisit # {}
  /\ FloorContainer # {}

\* a step of RegenerateRoom(NewSeed): GenerationSeed = NewSeed,
\* bUseRandomSeed = false, GenerateRoom (up to InitializeGrid)
RegenerateStep(NewSeed) ==
  \/ GenerateRoomFrom(NewSeed, FALSE)
  \/ GenerateRoomArrayFrom(NewSeed, FALSE)

\* the grid holds no trace of an earlier generation: every cell is as
\* InitializeGrid creates it and no container holds a mesh
FreshRoom ==
  /\ \A c \in DOMAIN RuntimeGrid :
        RuntimeGrid[c] = [FGridCell EXCEPT !.GridCoordinates = c]
  /\ SeqToSet(GridOrder) = DOMAIN RuntimeGrid
  /\ DoorwaySnapPoints = NoSnapPoints
  /\ FloorContainer = {} /\ WallContainer = {}
  /\ DoorContainer = {} /\ CeilingContainer = {}
  /\ ~bIsGenerated

\* the stream state right after InitializeGrid of a run seeded with InSeed:
\* the map revision has drawn the shape index from it unless the shape is
\* overridden
StreamAfterSeeding(InSeed) ==
  IF revision = "map" /\ ~bUseShapeOverride
  THEN ((InSeed % RandMod) * 5 + 3) % RandMod
  ELSE InSeed % RandMod

\* C17: RegenerateRoom(NewSeed), for every NewSeed and from every state,
\* leaves GenerationSeed = NewSeed and bUseRandomSeed = false; if the
\* generation starts, its random stream was initialised with NewSeed; and
\* the grid and meshes of the previous generation are gone when
\* InitializeGrid has built the new grid.
C17_RegenerateUsesNewSeed ==
  [][\A NewSeed \in Seeds :
       RegenerateStep(NewSeed) =>
         /\ GenerationSeed' = NewSeed
         /\ bUseRandomSeed' = FALSE
         /\ pc' # "idle" =>
               /\ streamSeed' = NewSeed
               /\ RandomStream' = StreamAfterSeeding(NewSeed)
         /\ pc' = "idle" => RuntimeGrid' = EmptyGrid
         /\ FreshRoom']_vars

\* RegenerateRoom was called with a seed not used before on a room that had
\* been generated with another seed, and has built the new grid
C17_Witness ==
  /\ lastCall = "Running"
  /\ AfterInitializeGrid
  /\ ~bUseRandomSeed
  /\ GenerationSeed = streamSeed
  /\ GenerationSeed # 0
  /\ runMemo # {}
  /\ \A m \in runMemo : m.Seed # GenerationSeed /\ m.Completed
  /\ RuntimeGrid # EmptyGrid

(***************************************************************************)
(* Shape selection                                                         *)
(***************************************************************************)
\* the index FRandomStream::RandRange(0, N-1) yields as the first draw of a
\* stream initialised with InSeed
FirstDrawnIndex(InSeed, N) ==
  ((((InSeed % RandMod) * 5 + 3) % RandMod) * N) \div RandMod

\* C18: shape selection.  In a GenerateRoom run that has reached seeding:
\* with the override flag set the shape used is ShapeOverride; with the flag
\* clear and N > 0 allowed shapes it is AllowedShapes[i] for the index i in
\* [0, N-1] drawn from the seeded stream.  With the flag clear and no
\* allowed shapes in a RoomData that loads, no generation is in progress or
\* completed: the grid is empty and bIsGenerated is false.
C18_ShapeSelection ==
  /\ (ReachedSeeding /\ bUseShapeOverride) => SelectedShape = ShapeOverride
  /\ (ReachedSeeding /\ ~bUseShapeOverride
        /\ Len(RoomData.AllowedShapes) > 0) =>
        LET i == FirstDrawnIndex(streamSeed, Len(RoomData.AllowedShapes))
        IN /\ i \in 0..(Len(RoomData.AllowedShapes) - 1)
           /\ SelectedShape = RoomData.AllowedShapes[i + 1]
  /\ (~bUseShapeOverride /\ LoadRoomData
        /\ Len(RoomData.AllowedShapes) = 0) =>
        /\ pc = "idle"
        /\ ~bIsGenerated
        /\ RuntimeGrid = EmptyGrid

\* the same statement for GenerateRoom of the map revision alone
C18_MapRevisionShapeSelection == revision = "map" => C18_ShapeSelection

\* GenerateRoom of the array revision has completed a room for a RoomData
\* without allowed shapes and without override: the grid is the default
\* 5 x 5 rectangle
C18_Witness ==
  /\ revision = "array"
  /\ lastCall = "Completed"
  /\ ~bUseShapeOverride
  /\ LoadRoomData
  /\ Len(RoomData.AllowedShapes) = 0
  /\ bIsGenerated
  /\ Cardinality(DOMAIN RuntimeGrid) = 25

(***************************************************************************)
(* Accepted forced placements                                              *)
(***************************************************************************)
\* the container the forced placement i is spawned into
ForcedContainer(i) ==
  CASE ForcedAll[i].Container = "Floor" -> FloorContainer
    [] ForcedAll[i].Container = "Wall" -> WallContainer
    [] ForcedAll[i].Container = "Ceiling" -> CeilingContainer

\* the mesh of forced placement i has been spawned at its anchor cell
ForcedSpawned(i) ==
  \E comp \in ForcedContainer(i) :
     /\ comp.BottomLeftCell = ForcedAll[i].Key
     /\ comp.PlacementData = ForcedAll[i].Value

\* a GenerateRoom run is in progress or has completed, and no placement call
\* has changed its grid since
InOrAfterRun == (pc # "idle" \/ lastCall = "Completed") /\ nCalls = 0

\* C19: an accepted forced placement is reserved and then placed.  For every
\* forced placement that passed the overlap check and whose mesh loads: the
\* TryPlaceMultiCellMesh call that follows its reservation returns true,
\* its mesh is spawned into its container, and its footprint cells are
\* Occupied from then on to the end of the generation.
C19_AcceptedForcedIsPlaced ==
  /\ (pc = "forced" /\ Len(calls) = 2 /\ calls[2].Mesh # "None") =>
        /\ calls[1].op = "ReserveCellsForFootprint" /\ calls[1].ret
        /\ calls[2].op = "TryPlaceMultiCellMesh" /\ calls[2].ret
  /\ InOrAfterRun =>
        \A i \in forcedAccepted :
           ForcedAll[i].Value.Mesh # "None" =>
              /\ ForcedSpawned(i)
              /\ \A c \in ForcedFootprint(i) :
                    /\ c \in DOMAIN RuntimeGrid
                    /\ RuntimeGrid[c].CellState = "Occupied"

\* the same statement for ApplyForcedPlacements of the array revision alone
C19_ArrayRevisionForcedIsPlaced ==
  revision = "array" => C19_AcceptedForcedIsPlaced

\* a room of the map revision has been generated in which an accepted forced
\* floor placement with a mesh that loads left its cells Reserved and
\* spawned nothing, while procedural floor tiles were placed around it
C19_Witness ==
  /\ revision = "map"
  /\ lastCall = "Completed"
  /\ nCalls = 0
  /\ FloorContainer # {}
  /\ \E i \in forcedAccepted :
        /\ ForcedAll[i].Container = "Floor"
        /\ ForcedAll[i].Value.Mesh # "None"
        /\ ~ForcedSpawned(i)
        /\ \A c \in ForcedFootprint(i) :
              c \in DOMAIN RuntimeGrid /\ RuntimeGrid[c].CellState = "Reserved"

(***************************************************************************)
(* Placements of one generation                                            *)
(***************************************************************************)
\* the accepted forced reservations and the successful floor placements of
\* the run, each with the cells of its footprint
ForcedPlacementsDone ==
  {[Kind |-> "Forced", Id |-> i, Cells |-> ForcedFootprint(i)] :
     i \in forcedAccepted}

MultiCellPlacementsDone ==
  {[Kind |-> "MultiCell", Id |-> p,
    Cells |-> Footprint(p[1].Cell, SortedTiles[p[2]].CellsX,
                        SortedTiles[p[2]].CellsY)] :
     p \in {q \in multiVisit \X (1..Len(SortedTiles)) : q[2] \in q[1].Placed}}

SingleCellPlacementsDone ==
  {[Kind |-> "SingleCell", Id |-> s, Cells |-> {s.Cell}] :
     s \in {v \in singleVisit : v.Placed}}

PlacementsDone ==
  ForcedPlacementsDone \cup MultiCellPlacementsDone
    \cup SingleCellPlacementsDone

\* C20: no two placements overlap.  In every state during a generation and
\* at its end, the footprints of all successful floor placements and
\* accepted forced reservations are pairwise disjoint and lie inside the
\* grid, and a cell is not Unoccupied exactly when one of them covers it.
C20_PlacementsDisjointAndCover ==
  InOrAfterRun =>
    /\ \A p \in PlacementsDone : \A q \in PlacementsDone :
          p # q => p.Cells \cap q.Cells = {}
    /\ \A p \in PlacementsDone : p.Cells \subseteq DOMAIN RuntimeGrid
    /\ \A c \in DOMAIN RuntimeGrid :
          RuntimeGrid[c].CellState # "Unoccupied"
            <=> \E p \in PlacementsDone : c \in p.Cells

\* a generation has ended with an accepted forced reservation of several
\* cells, a multi-cell floor tile and a single-cell floor tile side by side
C20_Witness ==
  /\ lastCall = "Completed"
  /\ nCalls = 0
  /\ \E p \in ForcedPlacementsDone : Cardinality(p.Cells) > 1
  /\ MultiCellPlacementsDone # {}
  /\ SingleCellPlacementsDone # {}

(***************************************************************************)
(* Cell states within one generation                                       *)
(***************************************************************************)
\* a call of GenerateRoom or RegenerateRoom up to the end of InitializeGrid
GenerateRoomStep ==
  \/ GenerateRoom
  \/ RegenerateRoom
  \/ GenerateRoomArray
  \/ RegenerateRoomArray

\* the cells claimed by the forced placements accepted so far
ForcedClaimed ==
  {c \in DOMAIN RuntimeGrid : \E i \in forcedAccepted : c \in ForcedFootprint(i)}

\* C21: cell states are monotonic within one generation.  Between
\* InitializeGrid and the next CleanupRoom the only state changes are
\* Unoccupied to Occupied and Unoccupied to Reserved: no step returns a cell
\* to Unoccupied, changes a Reserved or Occupied cell, assigns Excluded, or
\* adds or removes a grid cell, so procedural fill never overwrites a cell
\* claimed by a forced placement.
C21_CellStatesMonotonic ==
  [][(~GenerateRoomStep /\ ~CleanupStep) =>
       /\ DOMAIN RuntimeGrid' = DOMAIN RuntimeGrid
       /\ GridOrder' = GridOrder
       /\ \A c \in DOMAIN RuntimeGrid :
             /\ RuntimeGrid'[c].CellState # "Excluded"
             /\ \/ RuntimeGrid'[c].CellState = RuntimeGrid[c].CellState
                \/ /\ RuntimeGrid[c].CellState = "Unoccupied"
                   /\ RuntimeGrid'[c].CellState \in {"Occupied", "Reserved"}
       /\ \A c \in ForcedClaimed :
             RuntimeGrid'[c].CellState = RuntimeGrid[c].CellState]_vars

\* procedural fill has placed a multi-cell tile and a single-cell tile
\* around the cells reserved by a forced placement, which are still Reserved
C21_Witness ==
  /\ revision = "map"
  /\ "floor" \in phasesRun
  /\ ForcedClaimed # {}
  /\ \A c \in ForcedClaimed : RuntimeGrid[c].CellState = "Reserved"
  /\ \E v \in multiVisit : v.Placed # {}
  /\ \E s \in singleVisit : s.Placed
  /\ \E c \in DOMAIN RuntimeGrid : RuntimeGrid[c].CellState = "Occupied"

(***************************************************************************)
(* Completeness of the floor fill                                          *)
(***************************************************************************)
\* GenerateFloor (GenerateFloorTiles in the array revision) has returned in
\* the generation in progress or in the last one
AfterGenerateFloor ==
  /\ "floor" \in phasesRun
  /\ pc \notin {"floor", "floorMulti", "floorSingle",
                "floorTiles", "tilesMulti", "tilesSingle"}

\* the tiles of FloorData as GenerateFloor read them: at least one 1x1 tile,
\* every mesh loads, no negative selection weight
FloorTilesCanFill ==
  /\ \E i \in 1..Len(SortedTiles) : IsSingleCell(SortedTiles[i])
  /\ AllFloorMeshesLoad
  /\ \A i \in 1..Len(SortedTiles) : SortedTiles[i].SelectionWeight >= 0

\* C22: floor fill is complete.  If FloorData contains at least one 1x1
\* tile, every tile's mesh loads and all selection weights are non-negative,
\* then after GenerateFloor no grid cell is Unoccupied (every cell is
\* Occupied or Reserved), for every shape and every set of forced
\* placements.
C22_FloorFillComplete ==
  (AfterGenerateFloor /\ FloorTilesCanFill) =>
    \A c \in DOMAIN RuntimeGrid :
       RuntimeGrid[c].CellState \in {"Occupied", "Reserved"}

\* GenerateFloor has just returned on a grid that is not a rectangle and
\* holds an accepted forced placement; single-cell tiles, one of them of
\* weight zero in the data, filled what the larger tiles left
C22_Witness ==
  /\ pc \in {"walls", "wallsArray"}
  /\ AfterGenerateFloor
  /\ FloorTilesCanFill
  /\ \E i \in 1..Len(SortedTiles) : SortedTiles[i].SelectionWeight = 0
  /\ forcedAccepted # {}
  /\ \E s \in singleVisit : s.Placed
  /\ SelectedShape.ShapeType # "Rectangle"
  /\ RuntimeGrid # EmptyGrid

==========================================================================
